---------------------------- MODULE Spec2Model ----------------------------
(***************************************************************************)
(* A model of the openplantbook-go client library: the in-memory cache,    *)
(* the error taxonomy and response classifier, the token-bucket rate gate, *)
(* the constructor with its functional options, and the request pipeline   *)
(* of SearchPlants / GetPlantDetails run by concurrent callers.            *)
(*                                                                         *)
(* Time is counted in hours.  Strings are sequences of one-character       *)
(* strings, so that formatted cache keys are compared character by         *)
(* character.                                                              *)
(***************************************************************************)
EXTENDS Integers, Sequences, FiniteSets, TLC

VARIABLES
    now,          \* the wall clock (time.Now), in hours
    items,        \* InMemoryCache.items: key -> cacheItem
    cfg,          \* the Client's read-only configuration
    lim,          \* the rate.Limiter's bucket: tokens, last, lastEvent
    pc,           \* per caller: the position inside the current call
    call,         \* per caller: the arguments of the current call
    rsv,          \* per caller: the rate.Reservation held by the call
    res,          \* per caller: what the call returned
    aux,          \* per caller: what the call has done so far (history)
    past,         \* per caller: what its earlier calls did (history)
    ncalls,       \* number of calls started
    cget,         \* cache specification: the last Get and what was expected
    cset,         \* cache specification: per key, the last Set still standing
    draft,        \* constructor specification: the Client being built
    nw,           \* constructor specification: options, position, outcome
    cls,          \* classifier specification: input and output
    sw,           \* sweeper specification: the cleanup goroutine, the stop channel, the lock
    rq,           \* request specification: the request being built and sent
    lk            \* lock specification: the cache's RWMutex and the goroutines using it

vars == <<now, items, cfg, lim, pc, call, rsv, res, aux, past, ncalls,
          cget, cset, draft, nw, cls, sw, rq, lk>>

\* the variables the request pipeline leaves alone
aside == <<cget, cset, draft, nw, cls, sw, rq, lk>>

-----------------------------------------------------------------------------
(* Bounds of the model *)

MaxTime == 2

MaxCalls == 2

MaxTTL == 2

MaxOpts == 3

(* Program constants *)

HoursPerDay == 24

DefaultRateLimit == 200

SearchTTL == 1

DetailTTL == 24

Burst == 1

StatusUnauthorized == 401

StatusForbidden == 403

StatusNotFound == 404

StatusTooManyRequests == 429

ErrorStatusFloor == 400

Procs == {"p1", "p2"}

Min(a, b) == IF a < b THEN a ELSE b

Max(a, b) == IF a > b THEN a ELSE b

-----------------------------------------------------------------------------
(* Errors: an error value is its Unwrap chain, outermost layer first.      *)
(* The nil error is the empty chain.                                       *)

Layer(t, name, code, path, at) ==
    [t |-> t, name |-> name, code |-> code, path |-> path, at |-> at]

NilErr == <<>>

\* errors.New(text): a sentinel, identified by its name
Sentinel(name) == <<Layer("errorString", name, 0, <<>>, 0)>>

ErrUnauthorized == Sentinel("ErrUnauthorized")

ErrMultipleAuthMethods == Sentinel("ErrMultipleAuthMethods")

ErrNoAuthProvided == Sentinel("ErrNoAuthProvided")

ErrRateLimitExceeded == Sentinel("ErrRateLimitExceeded")

ErrNotFound == Sentinel("ErrNotFound")

ErrInvalidInput == <<Layer("ValidationError", "", 0, <<>>, 0)>>

ErrInvalidConfig(msg) == <<Layer("ConfigError", msg, 0, <<>>, 0)>>

APIError(code, path) == <<Layer("APIError", "", code, path, 0)>>

ErrRateLimited(retryAfter) == <<Layer("ErrRateLimited", "", 0, <<>>, retryAfter)>>

\* context.Canceled and context.DeadlineExceeded
CtxCanceled == Sentinel("context.Canceled")

CtxDeadlineExceeded == Sentinel("context.DeadlineExceeded")

\* an error of no taxonomy kind (a transport failure, a JSON syntax error, ...)
PlainError(name) == Sentinel(name)

\* fmt.Errorf("...: %v", err): the text only, the chain is lost
WrapV(err) == <<Layer("errorString", "fmt.Errorf", 0, <<>>, 0)>>

\* fmt.Errorf("...: %w", err): a *fmt.wrapError whose Unwrap is err
WrapW(err) == <<Layer("wrapError", "", 0, <<>>, 0)>> \o err

\* fmt.Errorf("%w: %s", sentinel, msg) in newAPIError
WrapSentinel(sentinel) == WrapW(sentinel)

\* &url.Error{Err: err}, what http.Client.Do returns
URLError(err) == <<Layer("urlError", "", 0, <<>>, 0)>> \o err

\* errors.Is(err, target) for a comparable target
ErrorsIs(err, target) == \E i \in 1..Len(err) : err[i] = target[1]

\* errors.As(err, &t) for a target of type t
ErrorsAs(err, t) == \E i \in 1..Len(err) : err[i].t = t

\* The taxonomy kinds a caller can match an error as.
Kinds(err) ==
    {k \in {"Unauthorized", "NotFound", "RateLimitExceeded", "API", "RateLimited",
            "Validation", "Config", "Cancellation", "NoAuth", "MultipleAuth"} :
        \/ k = "Unauthorized" /\ ErrorsIs(err, ErrUnauthorized)
        \/ k = "NotFound" /\ ErrorsIs(err, ErrNotFound)
        \/ k = "RateLimitExceeded" /\ ErrorsIs(err, ErrRateLimitExceeded)
        \/ k = "API" /\ ErrorsAs(err, "APIError")
        \/ k = "RateLimited" /\ ErrorsAs(err, "ErrRateLimited")
        \/ k = "Validation" /\ ErrorsAs(err, "ValidationError")
        \/ k = "Config" /\ ErrorsAs(err, "ConfigError")
        \/ k = "Cancellation" /\ (ErrorsIs(err, CtxCanceled) \/ ErrorsIs(err, CtxDeadlineExceeded))
        \/ k = "NoAuth" /\ ErrorsIs(err, ErrNoAuthProvided)
        \/ k = "MultipleAuth" /\ ErrorsIs(err, ErrMultipleAuthMethods)}

\* newAPIError(resp, endpoint): the response classifier
newAPIErrorGeneric(status, endpoint) == APIError(status, endpoint)

newAPIError(status, endpoint) ==
    CASE status = StatusUnauthorized \/ status = StatusForbidden -> WrapSentinel(ErrUnauthorized)
      [] status = StatusNotFound -> WrapSentinel(ErrNotFound)
      [] status = StatusTooManyRequests -> WrapSentinel(ErrRateLimitExceeded)
      [] OTHER -> APIError(status, endpoint)

-----------------------------------------------------------------------------
(* JSON payloads: a shape and the data it carries *)

Vals == {"r1", "r2"}

NilVal == "nil"

NilPayload == [shape |-> "none", v |-> NilVal]

\* json.Marshal(response.Results) / json.Marshal(details)
Marshal(op, v) == [shape |-> IF op = "search" THEN "array" ELSE "object", v |-> v]

\* json.Unmarshal(cached, &results) / json.Unmarshal(cached, &details)
Unmarshal(op, payload) ==
    IF (op = "search" /\ payload.shape = "array") \/ (op = "detail" /\ payload.shape = "object")
    THEN [ok |-> TRUE, v |-> payload.v]
    ELSE [ok |-> FALSE, v |-> NilVal]

\* json.NewDecoder(resp.Body).Decode(result): both result types are structs,
\* which decode from a JSON object and from nothing else
Decode(op, body) ==
    IF body.shape = "object" THEN [ok |-> TRUE, v |-> body.v] ELSE [ok |-> FALSE, v |-> NilVal]

Bodies == [shape : {"object"}, v : Vals] \cup [shape : {"array"}, v : {NilVal}]

-----------------------------------------------------------------------------
(* The cache *)

NoItems == [k \in {} |-> NilPayload]

\* an entry that already counts as expired at its expiration instant
ExpiredAtOrAfter(item, t) == t >= item.expiration

\* time.Now().After(item.expiration)
Expired(item, t) == t > item.expiration

\* a cache that finds every key
CacheGetFound(kind, its, key, t) == [found |-> TRUE, value |-> NilPayload]

\* InMemoryCache.Get / NoOpCache.Get
CacheGet(kind, its, key, t) ==
    IF kind = "noop" THEN [found |-> FALSE, value |-> NilPayload]
    ELSE IF key \notin DOMAIN its THEN [found |-> FALSE, value |-> NilPayload]
    ELSE IF Expired(its[key], t) THEN [found |-> FALSE, value |-> NilPayload]
    ELSE [found |-> TRUE, value |-> its[key].value]

\* InMemoryCache.Set / NoOpCache.Set
CacheSet(kind, its, key, value, ttl, t) ==
    IF kind = "noop" THEN its
    ELSE [k \in DOMAIN its \cup {key} |->
            IF k = key THEN [value |-> value, expiration |-> t + ttl] ELSE its[k]]

\* a Delete that empties the map
CacheDeleteAll(kind, its, key) == NoItems

\* InMemoryCache.Delete / NoOpCache.Delete
CacheDelete(kind, its, key) ==
    IF kind = "noop" THEN its ELSE [k \in DOMAIN its \ {key} |-> its[k]]

\* InMemoryCache.Clear / NoOpCache.Clear
CacheClear(kind, its) == IF kind = "noop" THEN its ELSE NoItems

\* a sweep that drops every entry
RemoveAll(its, t) == NoItems

\* InMemoryCache.removeExpired
RemoveExpired(its, t) == [k \in {x \in DOMAIN its : ~Expired(its[x], t)} |-> its[k]]

-----------------------------------------------------------------------------
(* Strings and the cache keys *)

Digit(d) ==
    CASE d = 0 -> "0" [] d = 1 -> "1" [] d = 2 -> "2" [] d = 3 -> "3" [] d = 4 -> "4"
      [] d = 5 -> "5" [] d = 6 -> "6" [] d = 7 -> "7" [] d = 8 -> "8" [] OTHER -> "9"

RECURSIVE ItoaNat(_)
ItoaNat(n) == IF n < 10 THEN <<Digit(n)>> ELSE ItoaNat(n \div 10) \o <<Digit(n % 10)>>

\* strconv.Itoa / the %v verb on an int
Itoa(n) == IF n < 0 THEN <<"-">> \o ItoaNat(-n) ELSE ItoaNat(n)

\* the %v verb on a bool
FmtBool(b) == IF b THEN <<"t", "r", "u", "e">> ELSE <<"f", "a", "l", "s", "e">>

\* A nil options pointer, and options values.  One record shape serves
\* SearchOptions (Limit, UserPlants) and DetailOptions (Language).
NilOpts == [nil |-> TRUE, Limit |-> 0, UserPlants |-> FALSE, Language |-> <<>>]

SearchOptions(limit, userPlants) ==
    [nil |-> FALSE, Limit |-> limit, UserPlants |-> userPlants, Language |-> <<>>]

DetailOptions(language) ==
    [nil |-> FALSE, Limit |-> 0, UserPlants |-> FALSE, Language |-> language]

\* the %v verb on *SearchOptions / *DetailOptions
FmtOpts(op, opts) ==
    IF opts.nil THEN <<"<", "n", "i", "l", ">">>
    ELSE IF op = "search"
         THEN <<"&", "{">> \o Itoa(opts.Limit) \o <<" ">> \o FmtBool(opts.UserPlants) \o <<"}">>
         ELSE <<"&", "{">> \o opts.Language \o <<"}">>

\* fmt.Sprintf("search:%s:%v", query, opts) / fmt.Sprintf("detail:%s:%v", pid, opts)
CacheKey(op, q, opts) ==
    (IF op = "search" THEN <<"s", "e", "a", "r", "c", "h", ":">>
                      ELSE <<"d", "e", "t", "a", "i", "l", ":">>)
    \o q \o <<":">> \o FmtOpts(op, opts)

\* the position of the first element of s that is in cs, Len(s) + 1 if none
FirstOf(s, cs) ==
    IF \E i \in 1 .. Len(s) : s[i] \in cs
    THEN CHOOSE i \in 1 .. Len(s) : s[i] \in cs /\ \A j \in 1 .. i - 1 : s[j] \notin cs
    ELSE Len(s) + 1

\* "/plant/search" / fmt.Sprintf("/plant/detail/%s", pid): what follows the
\* base address in the string handed to http.NewRequestWithContext
RawTarget(op, q) ==
    IF op = "search" THEN <<"/plant/search">> ELSE <<"/plant/detail/">> \o q

\* url.Parse: the fragment is cut at the first '#'
URLCutFragment(raw) == SubSeq(raw, 1, FirstOf(raw, {"#"}) - 1)

\* url.Parse: the path ends at the first '?'
URLPath(raw) ==
    LET u == URLCutFragment(raw) IN SubSeq(u, 1, FirstOf(u, {"?"}) - 1)

\* url.Parse: the raw query is what follows the first '?'
URLRawQuery(raw) ==
    LET u == URLCutFragment(raw) IN SubSeq(u, FirstOf(u, {"?"}) + 1, Len(u))

\* url.ParseQuery, for a raw query without '&': name[=value]
ParseQuery(rawq) ==
    IF rawq = <<>> THEN {}
    ELSE LET i == FirstOf(rawq, {"="})
         IN  {[name |-> SubSeq(rawq, 1, i - 1), value |-> SubSeq(rawq, i + 1, Len(rawq))]}

\* url.Values.Set
QuerySet(params, name, value) ==
    {x \in params : x.name # name} \cup {[name |-> name, value |-> value]}

\* req.URL.Path of the outbound request
EndpointPath(op, q) == URLPath(RawTarget(op, q))

\* http.Header of a request: a value per header name, "" when absent
NoHeaders == [h \in {"Accept", "User-Agent", "Authorization"} |-> ""]

\* Client.newRequest: the parsed URL and the default headers; the request
\* holds a reference to its header map
newRequest(op, q, hdr) ==
    [method |-> "GET", path |-> URLPath(RawTarget(op, q)),
     params |-> ParseQuery(URLRawQuery(RawTarget(op, q))), hdr |-> hdr]

\* req.Header.Set("Accept", ...), req.Header.Set("User-Agent", ...)
DefaultHeaders ==
    [NoHeaders EXCEPT !["Accept"] = "application/json", !["User-Agent"] = "openplantbook-go/Version"]

\* the query parameters SearchPlants / GetPlantDetails add to the request
WithParams(op, q, opts, params) ==
    IF op = "search"
    THEN LET a == QuerySet(params, <<"alias">>, q)
             b == IF ~opts.nil /\ opts.Limit > 0 THEN QuerySet(a, <<"limit">>, Itoa(opts.Limit)) ELSE a
         IN  IF ~opts.nil /\ opts.UserPlants THEN QuerySet(b, <<"userplant">>, <<"user">>) ELSE b
    ELSE IF ~opts.nil /\ opts.Language # <<>>
         THEN QuerySet(params, <<"lang">>, opts.Language)
         ELSE params

\* a Clone that shares the header map of the original
SharedHeader(hdr) == hdr

\* req.Clone(ctx): the clone gets a header map of its own
ClonedHeader(hdr) == hdr + 1

\* one hour for every operation
TTLOfHour(op) == SearchTTL

\* 1*time.Hour / 24*time.Hour
TTLOf(op) == IF op = "search" THEN SearchTTL ELSE DetailTTL

-----------------------------------------------------------------------------
(* The rate governor: golang.org/x/time/rate with burst 1.  Tokens are     *)
(* counted in units of 1/interval of a token, so that one hour refills one *)
(* unit and a whole token is `interval' units.                             *)

\* 24*time.Hour / time.Duration(requestsPerDay)
IntervalOf(perDay) == HoursPerDay \div perDay

\* rate.NewLimiter(rate.Every(interval), 1)
NewLimiter(interval) == [tokens |-> Burst * interval, last |-> 0, lastEvent |-> 0]

\* Limiter.advance
Advance(l, interval, t) ==
    LET last == IF t < l.last THEN t ELSE l.last
    IN  Min(Burst * interval, l.tokens + (t - last))

NoReservation == [ok |-> FALSE, tokens |-> 0, timeToAct |-> 0]

\* Limiter.reserveN(t, 1, maxFutureReserve); bounded = FALSE is InfDuration
ReserveN(l, interval, t, bounded, maxFutureReserve) ==
    LET tokens == Advance(l, interval, t) - interval
        waitDuration == IF tokens < 0 THEN -tokens ELSE 0
        ok == 1 <= Burst /\ (~bounded \/ waitDuration <= maxFutureReserve)
    IN  IF ok
        THEN [r |-> [ok |-> TRUE, tokens |-> 1, timeToAct |-> t + waitDuration],
              lim |-> [tokens |-> tokens, last |-> t, lastEvent |-> t + waitDuration]]
        ELSE [r |-> NoReservation, lim |-> l]

\* Reservation.DelayFrom(t)
DelayFrom(r, t) == Max(0, r.timeToAct - t)

\* Reservation.CancelAt(t)
CancelAt(l, interval, r, t) ==
    IF ~r.ok \/ r.tokens = 0 \/ r.timeToAct < t THEN l
    ELSE LET restoreTokens == r.tokens * interval - (l.lastEvent - r.timeToAct)
         IN  IF restoreTokens <= 0 THEN l
             ELSE LET prevEvent == r.timeToAct - r.tokens * interval
                  IN  [tokens |-> Min(Burst * interval, Advance(l, interval, t) + restoreTokens),
                       last |-> t,
                       lastEvent |-> IF r.timeToAct = l.lastEvent /\ prevEvent >= t
                                     THEN prevEvent ELSE l.lastEvent]

-----------------------------------------------------------------------------
(* Contexts *)

Background == [cancelable |-> FALSE, cancelled |-> FALSE, hasDeadline |-> FALSE, deadline |-> 0]

WithCancel == [cancelable |-> TRUE, cancelled |-> FALSE, hasDeadline |-> FALSE, deadline |-> 0]

WithDeadline(d) == [cancelable |-> TRUE, cancelled |-> FALSE, hasDeadline |-> TRUE, deadline |-> d]

\* ctx.Err() at time t
CtxErr(ctx, t) ==
    IF ctx.cancelled THEN CtxCanceled
    ELSE IF ctx.hasDeadline /\ t >= ctx.deadline THEN CtxDeadlineExceeded
    ELSE NilErr

CtxDone(ctx, t) == CtxErr(ctx, t) # NilErr

-----------------------------------------------------------------------------
(* The request pipeline: SearchPlants and GetPlantDetails *)

Ops == {"search", "detail"}

Queries == {<<>>, <<"m">>}

OptsOf(op) ==
    IF op = "search" THEN {NilOpts, SearchOptions(10, FALSE)}
    ELSE {DetailOptions(<<"e", "n">>)}

CtxChoices(t) == {Background, WithCancel, WithDeadline(t + 1)}

Statuses == {200, 304, 401, 403, 404, 429, 500}

NoBody == [shape |-> "invalid", v |-> NilVal]

\* what the transport may answer: a response, a failure, the end of the context
Outcomes ==
    [kind : {"response"}, status : {s \in Statuses : s < ErrorStatusFloor}, body : Bodies]
    \cup [kind : {"response"}, status : {s \in Statuses : s >= ErrorStatusFloor}, body : {NoBody}]
    \cup [kind : {"fail", "ctx"}, status : {0}, body : {NoBody}]

RateChoices == {12}

\* the configurations New can build; without a limiter the behaviour is never read
Configs ==
    {c \in [cache : {"inmem", "noop"}, limiter : BOOLEAN, perDay : RateChoices,
            behavior : {"RateLimitWait", "RateLimitError"}] :
        ~c.limiter => c.behavior = "RateLimitWait"}

Interval == IntervalOf(cfg.perDay)

NoCall == [op |-> "search", q |-> <<>>, opts |-> NilOpts, ctx |-> Background]

NoResult == [val |-> NilVal, err |-> NilErr]

NoExpect == [some |-> FALSE, val |-> NilVal, replaced |-> FALSE]

NoAux ==
    [n |-> 0, again |-> FALSE, hit |-> FALSE, lookups |-> 0, tokens |-> 0, delay |-> 0,
     dispatches |-> 0, status |-> 0, decoded |-> FALSE, sets |-> 0, cause |-> NilErr,
     prevTok |-> FALSE, prevTokAt |-> 0, dispAt |-> 0, stale |-> FALSE, garbled |-> FALSE,
     logged |-> "", retry |-> FALSE]

NoPast ==
    [ok |-> FALSE, key |-> <<>>, val |-> NilVal, exp |-> 0, intact |-> FALSE,
     replaced |-> FALSE, tok |-> FALSE, tokAt |-> 0, toks |-> {}]

\* if query == "" / if pid == ""
InputValidAlways(q) == TRUE

InputValid(q) == q # <<>>

\* a gate that is there whatever the client holds
GateAlways == TRUE

\* a gate that is never there
GateOff == FALSE

\* c.rateLimiter != nil
GateOn == cfg.limiter

\* a gate that always takes the waiting branch
FailFastNever == FALSE

\* c.rateLimitBehavior == RateLimitError
FailFast == cfg.behavior = "RateLimitError"

\* c.rateLimiter.Wait(ctx): how long the call is held back
BlockNoDelay(r, t) == 0

\* a wait whose timer never fires
BlockNeverDue(r, t) == 1

BlockDelay(r, t) == DelayFrom(r, t)

\* a lookup that never hits
LookupNever(op, key, t) == [ok |-> FALSE, v |-> NilVal]

\* a lookup that returns whatever payload the cache reports, without decoding it
LookupTrusting(op, key, t) ==
    LET g == CacheGet(cfg.cache, items, key, t)
    IN  IF g.found THEN [ok |-> TRUE, v |-> g.value.v] ELSE [ok |-> FALSE, v |-> NilVal]

\* if cached, ok := c.cache.Get(cacheKey); ok { if err := json.Unmarshal(...); err == nil {
LookupHit(op, key, t) ==
    LET g == CacheGet(cfg.cache, items, key, t)
    IN  IF g.found THEN Unmarshal(op, g.value) ELSE [ok |-> FALSE, v |-> NilVal]

\* where a call goes after the cache lookup
AfterLookupGate(hit) == "rate"

AfterLookup(hit) == IF hit THEN "done" ELSE "rate"

\* fmt.Errorf("search plants: %w", err) / fmt.Errorf("get plant details: %w", err)
WrapCallV(err) == WrapV(err)

WrapCall(err) == WrapW(err)

\* if resp.StatusCode >= 400
IsHTTPError(status) == status >= ErrorStatusFloor

\* fmt.Errorf("HTTP request failed: %w", err)
WrapDoV(err) == WrapV(err)

\* a call that sends its request again after a failed exchange
AfterFailureRetry == "dispatch"

\* if err := c.doRequest(ctx, req, &response); err != nil { return nil, ... }
AfterFailure == "done"

WrapDo(err) == WrapW(err)

\* Client.doRequest: the error (nil on success), the decoded value, the error as
\* created at the failure site, and whether the body was decoded
doRequest(op, q, ctx, out, t) ==
    IF out.kind = "fail"
    THEN [err |-> WrapDo(URLError(PlainError("net"))), v |-> NilVal,
          cause |-> PlainError("net"), decoded |-> FALSE]
    ELSE IF out.kind = "ctx"
    THEN [err |-> WrapDo(URLError(CtxErr(ctx, t))), v |-> NilVal,
          cause |-> CtxErr(ctx, t), decoded |-> FALSE]
    ELSE IF IsHTTPError(out.status)
    THEN [err |-> newAPIError(out.status, EndpointPath(op, q)), v |-> NilVal,
          cause |-> newAPIError(out.status, EndpointPath(op, q)), decoded |-> FALSE]
    ELSE LET d == Decode(op, out.body)
         IN  IF d.ok THEN [err |-> NilErr, v |-> d.v, cause |-> NilErr, decoded |-> TRUE]
             ELSE [err |-> WrapW(PlainError("json")), v |-> NilVal,
                   cause |-> PlainError("json"), decoded |-> TRUE]

\* history: what a call beginning now may expect from its caller's last success
ExpectOf(p, key, t) ==
    IF past[p].ok /\ past[p].key = key /\ past[p].intact /\ t <= past[p].exp
    THEN [some |-> TRUE, val |-> past[p].val, replaced |-> past[p].replaced]
    ELSE NoExpect

\* history: the entry of caller p's last success under key, still in the map,
\* has expired by t
StaleFor(p, key, t) ==
    past[p].ok /\ past[p].key = key /\ past[p].intact /\ ~past[p].replaced /\ t > past[p].exp

\* history: caller p has just succeeded with value v under key
PastAfterSuccess(p, key, v, its) ==
    [past[p] EXCEPT !.ok = TRUE, !.key = key, !.val = v,
                    !.exp = IF key \in DOMAIN its THEN its[key].expiration ELSE 0,
                    !.intact = key \in DOMAIN its, !.replaced = FALSE]

\* history: the entries under keys ks were removed
PastAfterRemove(ks) ==
    [p \in Procs |-> IF past[p].key \in ks THEN [past[p] EXCEPT !.intact = FALSE] ELSE past[p]]

\* history: the entry under key was overwritten by another caller's Set
PastAfterReplace(pp, key) ==
    [p \in Procs |-> IF past[p].key = key THEN [pp[p] EXCEPT !.replaced = TRUE] ELSE pp[p]]

\* history kept once the call has returned: the time stamps are dropped
Summary(a) ==
    [a EXCEPT !.delay = 0, !.prevTok = FALSE, !.prevTokAt = 0, !.dispAt = 0, !.retry = FALSE]

\* the call returns (val, err); its context and its reservation are released
Finish(p, c, val, err, a) ==
    /\ pc' = [pc EXCEPT ![p] = "done"]
    /\ call' = [call EXCEPT ![p] = [c EXCEPT !.ctx = Background]]
    /\ res' = [res EXCEPT ![p] = [val |-> val, err |-> err]]
    /\ aux' = [aux EXCEPT ![p] = Summary(a)]
    /\ rsv' = [rsv EXCEPT ![p] = NoReservation]

\* the call passes the rate gate with a token
Granted(p, timeToAct) ==
    /\ pc' = [pc EXCEPT ![p] = "dispatch"]
    /\ aux' = [aux EXCEPT ![p].tokens = 1]
    /\ past' = [past EXCEPT ![p].tok = TRUE, ![p].tokAt = timeToAct,
                            ![p].toks = @ \cup {timeToAct}]
    /\ rsv' = [rsv EXCEPT ![p] = NoReservation]
    /\ UNCHANGED <<call, res>>

\* Construction: the client New builds from its options

DefaultBaseURL == "https://open.plantbook.io/api/v1"

\* *http.Client values: nil, one supplied by the caller, or one built by New
NilClient == [kind |-> "nil", id |-> "", secret |-> "", url |-> ""]

SuppliedClient(h) == [kind |-> "supplied", id |-> h, secret |-> "", url |-> ""]

\* &http.Client{Transport: &apiKeyTransport{apiKey: ..., transport: http.DefaultTransport}}
APIKeyClient(apiKey) == [kind |-> "apiKeyTransport", id |-> apiKey, secret |-> "", url |-> ""]

\* oauthConfig.Client(context.Background()), TokenURL: c.baseURL + "/token/"
OAuthClient(clientID, clientSecret, baseURL) ==
    [kind |-> "oauth2", id |-> clientID, secret |-> clientSecret, url |-> baseURL \o "/token/"]

\* client := &Client{...}: the defaults of New
DefaultClient ==
    [used |-> TRUE, apiKey |-> "", clientID |-> "", clientSecret |-> "",
     baseURL |-> DefaultBaseURL, httpClient |-> NilClient, cache |-> "inmem",
     perDay |-> DefaultRateLimit, logger |-> "nil", behavior |-> "RateLimitWait"]

Opt(name, a, b, n) == [name |-> name, a |-> a, b |-> b, n |-> n]

\* the options a caller may pass, valid and invalid
Options ==
    {Opt("WithAPIKey", a, "", 0) : a \in {"", "k"}}
    \cup {Opt("WithOAuth2", a, b, 0) : a \in {"", "id"}, b \in {"", "s"}}
    \cup {Opt("WithBaseURL", a, "", 0) : a \in {"", "u"}}
    \cup {Opt("WithHTTPClient", a, "", 0) : a \in {"nil", "h1", "h2"}}
    \cup {Opt("WithCache", a, "", 0) : a \in {"nil", "noop"}}
    \cup {Opt("WithRateLimit", "", "", n) : n \in {-1, 0, 12}}
    \cup {Opt("WithLogger", a, "", 0) : a \in {"lg"}}
    \cup {Opt("DisableRateLimit", "", "", 0)}
    \cup {Opt("WithRateLimitBehavior", a, "", 0) : a \in {"RateLimitError"}}

Accepted(c) == [err |-> NilErr, c |-> c]

\* a rejection with an error of no kind
RejectedPlain(c, msg) == [err |-> PlainError(msg), c |-> c]

\* return ErrInvalidConfig(msg)
Rejected(c, msg) == [err |-> ErrInvalidConfig(msg), c |-> c]

\* the OAuth2 option builds the transport at once, from the base address of that moment
ApplyOptionEager(c, o) ==
    CASE o.name = "WithAPIKey" ->
            IF o.a = "" THEN Rejected(c, "API key cannot be empty")
            ELSE Accepted([c EXCEPT !.apiKey = o.a])
      [] o.name = "WithOAuth2" ->
            IF o.a = "" \/ o.b = "" THEN Rejected(c, "client_id and client_secret cannot be empty")
            ELSE Accepted([c EXCEPT !.clientID = o.a, !.clientSecret = o.b,
                                    !.httpClient = OAuthClient(o.a, o.b, c.baseURL)])
      [] o.name = "WithBaseURL" ->
            IF o.a = "" THEN Rejected(c, "base URL cannot be empty")
            ELSE Accepted([c EXCEPT !.baseURL = o.a])
      [] o.name = "WithHTTPClient" ->
            IF o.a = "nil" THEN Rejected(c, "HTTP client cannot be nil")
            ELSE Accepted([c EXCEPT !.httpClient = SuppliedClient(o.a)])
      [] o.name = "WithCache" ->
            IF o.a = "nil" THEN Rejected(c, "cache cannot be nil")
            ELSE Accepted([c EXCEPT !.cache = o.a])
      [] o.name = "WithRateLimit" ->
            IF o.n <= 0 THEN Rejected(c, "rate limit must be positive")
            ELSE Accepted([c EXCEPT !.perDay = o.n])
      [] o.name = "WithLogger" -> Accepted([c EXCEPT !.logger = o.a])
      [] o.name = "DisableRateLimit" -> Accepted([c EXCEPT !.perDay = 0])
      [] OTHER -> Accepted([c EXCEPT !.behavior = o.a])

\* options that assign their argument without looking at it
ApplyOptionUnchecked(c, o) ==
    CASE o.name = "WithAPIKey" -> Accepted([c EXCEPT !.apiKey = o.a])
      [] o.name = "WithOAuth2" -> Accepted([c EXCEPT !.clientID = o.a, !.clientSecret = o.b])
      [] o.name = "WithBaseURL" -> Accepted([c EXCEPT !.baseURL = o.a])
      [] o.name = "WithHTTPClient" ->
            Accepted([c EXCEPT !.httpClient = IF o.a = "nil" THEN NilClient ELSE SuppliedClient(o.a)])
      [] o.name = "WithCache" -> Accepted([c EXCEPT !.cache = o.a])
      [] o.name = "WithRateLimit" -> Accepted([c EXCEPT !.perDay = o.n])
      [] o.name = "WithLogger" -> Accepted([c EXCEPT !.logger = o.a])
      [] o.name = "DisableRateLimit" -> Accepted([c EXCEPT !.perDay = 0])
      [] OTHER -> Accepted([c EXCEPT !.behavior = o.a])

\* opt(client) for each option of options.go
ApplyOption(c, o) ==
    CASE o.name = "WithAPIKey" ->
            IF o.a = "" THEN Rejected(c, "API key cannot be empty")
            ELSE Accepted([c EXCEPT !.apiKey = o.a])
      [] o.name = "WithOAuth2" ->
            IF o.a = "" \/ o.b = "" THEN Rejected(c, "client_id and client_secret cannot be empty")
            ELSE Accepted([c EXCEPT !.clientID = o.a, !.clientSecret = o.b])
      [] o.name = "WithBaseURL" ->
            IF o.a = "" THEN Rejected(c, "base URL cannot be empty")
            ELSE Accepted([c EXCEPT !.baseURL = o.a])
      [] o.name = "WithHTTPClient" ->
            IF o.a = "nil" THEN Rejected(c, "HTTP client cannot be nil")
            ELSE Accepted([c EXCEPT !.httpClient = SuppliedClient(o.a)])
      [] o.name = "WithCache" ->
            IF o.a = "nil" THEN Rejected(c, "cache cannot be nil")
            ELSE Accepted([c EXCEPT !.cache = o.a])
      [] o.name = "WithRateLimit" ->
            IF o.n <= 0 THEN Rejected(c, "rate limit must be positive")
            ELSE Accepted([c EXCEPT !.perDay = o.n])
      [] o.name = "WithLogger" -> Accepted([c EXCEPT !.logger = o.a])
      [] o.name = "DisableRateLimit" -> Accepted([c EXCEPT !.perDay = 0])
      [] OTHER -> Accepted([c EXCEPT !.behavior = o.a])

\* a log helper that calls Debug on whatever logger the client holds
LogUnguarded(c, msg) == msg

\* c.log(msg): the message reaches the logger only when one is configured
Log(c, msg) == IF c.logger # "nil" THEN msg ELSE ""

AuthResult(err, c, msg) == [err |-> err, c |-> c, logged |-> Log(c, msg)]

\* a resolver that lets the static key win when both schemes are present
configureAuthKeyFirst(c) ==
    IF c.httpClient # NilClient THEN AuthResult(NilErr, c, "using custom HTTP client")
    ELSE IF c.apiKey # ""
    THEN AuthResult(NilErr, [c EXCEPT !.httpClient = APIKeyClient(c.apiKey)], "using API Key authentication")
    ELSE IF c.clientID = "" /\ c.clientSecret = "" THEN AuthResult(ErrNoAuthProvided, c, "")
    ELSE AuthResult(NilErr, [c EXCEPT !.httpClient = OAuthClient(c.clientID, c.clientSecret, c.baseURL)],
                    "using OAuth2 Client Credentials authentication")

\* a resolver without the early return for a supplied client
configureAuthNoSkip(c) ==
    LET hasAPIKey == c.apiKey # ""
        hasOAuth2 == c.clientID # "" \/ c.clientSecret # ""
    IN  IF hasAPIKey /\ hasOAuth2 THEN AuthResult(ErrMultipleAuthMethods, c, "")
        ELSE IF ~hasAPIKey /\ ~hasOAuth2 THEN AuthResult(ErrNoAuthProvided, c, "")
        ELSE IF hasAPIKey
        THEN AuthResult(NilErr, [c EXCEPT !.httpClient = APIKeyClient(c.apiKey)],
                        "using API Key authentication")
        ELSE AuthResult(NilErr, [c EXCEPT !.httpClient = OAuthClient(c.clientID, c.clientSecret, c.baseURL)],
                        "using OAuth2 Client Credentials authentication")

\* Client.configureAuth
configureAuth(c) ==
    LET hasAPIKey == c.apiKey # ""
        hasOAuth2 == c.clientID # "" \/ c.clientSecret # ""
    IN  IF c.httpClient # NilClient THEN AuthResult(NilErr, c, "using custom HTTP client")
        ELSE IF hasAPIKey /\ hasOAuth2 THEN AuthResult(ErrMultipleAuthMethods, c, "")
        ELSE IF ~hasAPIKey /\ ~hasOAuth2 THEN AuthResult(ErrNoAuthProvided, c, "")
        ELSE IF hasAPIKey
        THEN AuthResult(NilErr, [c EXCEPT !.httpClient = APIKeyClient(c.apiKey)],
                        "using API Key authentication")
        ELSE IF c.clientID = "" \/ c.clientSecret = ""
        THEN AuthResult(ErrInvalidConfig("both client_id and client_secret required for OAuth2"), c, "")
        ELSE AuthResult(NilErr, [c EXCEPT !.httpClient = OAuthClient(c.clientID, c.clientSecret, c.baseURL)],
                        "using OAuth2 Client Credentials authentication")

\* Client.validate
validate(c) ==
    IF c.baseURL = "" THEN ErrInvalidConfig("base URL cannot be empty")
    ELSE IF c.httpClient = NilClient THEN ErrInvalidConfig("HTTP client cannot be nil")
    ELSE IF c.cache = "nil" THEN ErrInvalidConfig("cache cannot be nil")
    ELSE NilErr

\* the progress of one call of New, with what its options asked for
StartNew ==
    [used |-> TRUE, stage |-> "options", n |-> 0, err |-> NilErr, logged |-> "",
     key |-> FALSE, oauth |-> FALSE, supplied |-> "nil", rejected |-> FALSE,
     last |-> Opt("", "", "", 0)]

\* the variables of the other specifications, at rest
NoCGet == [key |-> <<>>, found |-> FALSE, value |-> NilPayload, at |-> 0, done |-> FALSE]

NoCSet == [k \in {} |-> NilPayload]

NoDraft == [DefaultClient EXCEPT !.used = FALSE]

NoNew == [StartNew EXCEPT !.used = FALSE]

NoCls == [used |-> FALSE, status |-> 0, endpoint |-> <<>>, err |-> NilErr, done |-> FALSE]

\* NewInMemoryCache: the cleanup goroutine is in its select, no tick is
\* buffered in ticker.C, c.stop is open, c.mu is free and nobody is in Set
StartSweeper ==
    [used |-> TRUE, pc |-> "select", tick |-> FALSE, closed |-> FALSE, mu |-> "free",
     user |-> <<>>, at |-> "", blocked |-> FALSE, late |-> FALSE, gone |-> FALSE]

NoSweeper == [StartSweeper EXCEPT !.used = FALSE]

\* no request object
NilRequest == [method |-> "", path |-> <<>>, params |-> {}, hdr |-> 0]

\* nothing has reached the underlying transport
NoWire == [method |-> "", path |-> <<>>, params |-> {}, headers |-> NoHeaders]

\* before newRequest: the inputs of the call and the key of the transport
StartRequest(op, q, opts, apiKey) ==
    [used |-> TRUE, op |-> op, q |-> q, opts |-> opts, apiKey |-> apiKey, stage |-> "start",
     req |-> NilRequest, cur |-> NilRequest, heap |-> [i \in 1 .. 2 |-> NoHeaders],
     wire |-> NoWire]

NoRequest == [StartRequest("search", <<>>, NilOpts, "") EXCEPT !.used = FALSE]

\* the goroutines that call into one InMemoryCache
Goroutines == {"g1", "g2", "g3"}

\* no cache operation
NoOp == [name |-> "", key |-> <<>>, ttl |-> 0]

\* a new cache: nobody holds c.mu (w: a writer holds it, r: the readers
\* holding it), every goroutine is outside the cache
StartLock ==
    [used |-> TRUE, w |-> FALSE, r |-> 0,
     at |-> [g \in Goroutines |-> "idle"], op |-> [g \in Goroutines |-> NoOp],
     seen |-> [g \in Goroutines |-> NoItems], base |-> NoItems]

NoLock == [StartLock EXCEPT !.used = FALSE]

\* the RetryAfter field of the ErrRateLimited that errors.As finds in err
RetryAfterOf(err) ==
    LET i == CHOOSE i \in 1..Len(err) : err[i].t = "ErrRateLimited"
    IN  err[i].at

\* the caller p comes back at time t after a RateLimited error, no sooner than
\* the error told it to, and nobody has called the client since that call began
IsRetry(p, t) ==
    /\ pc[p] = "done"
    /\ "RateLimited" \in Kinds(res[p].err)
    /\ t >= RetryAfterOf(res[p].err)
    /\ aux[p].n = ncalls
    /\ \A o \in Procs \ {p} : pc[o] \in {"idle", "done"}

\* entry of SearchPlants / GetPlantDetails: validation and the cache lookup
Call(p, op, q, opts, ctx) ==
    /\ pc[p] \in {"idle", "done"}
    /\ ncalls' = ncalls + 1
    /\ LET key == CacheKey(op, q, opts)
           c == [op |-> op, q |-> q, opts |-> opts, ctx |-> ctx]
           e == ExpectOf(p, key, now)
           a0 == [NoAux EXCEPT !.n = ncalls + 1, !.again = e.some /\ ~e.replaced,
                               !.prevTok = past[p].tok, !.prevTokAt = past[p].tokAt,
                               !.stale = StaleFor(p, key, now), !.retry = IsRetry(p, now)]
       IN  IF ~InputValid(q)
           THEN /\ Finish(p, c, NilVal, ErrInvalidInput, [a0 EXCEPT !.cause = ErrInvalidInput])
                /\ UNCHANGED past
           ELSE LET u == LookupHit(op, key, now)
                    a1 == [a0 EXCEPT !.lookups = 1, !.hit = u.ok,
                                     !.garbled = CacheGet(cfg.cache, items, key, now).found /\ ~u.ok]
                IN  IF AfterLookup(u.ok) = "done"
                    THEN /\ Finish(p, c, u.v, NilErr, [a1 EXCEPT !.logged = Log(draft, "cache hit")])
                         /\ past' = [past EXCEPT ![p] = PastAfterSuccess(p, key, u.v, items)]
                    ELSE /\ pc' = [pc EXCEPT ![p] = "rate"]
                         /\ call' = [call EXCEPT ![p] = c]
                         /\ aux' = [aux EXCEPT ![p] = a1]
                         /\ res' = [res EXCEPT ![p] = NoResult]
                         /\ rsv' = [rsv EXCEPT ![p] = NoReservation]
                         /\ UNCHANGED past
    /\ UNCHANGED <<now, items, cfg, lim, aside>>

\* the rate gate: no limiter, Reserve (fail-fast) or the entry of Wait (block)
RateGate(p) ==
    /\ pc[p] = "rate"
    /\ LET ctx == call[p].ctx IN
       IF ~GateOn
       THEN /\ pc' = [pc EXCEPT ![p] = "dispatch"]
            /\ UNCHANGED <<lim, rsv, res, aux, past, call>>
       ELSE IF FailFast
       THEN LET rr == ReserveN(lim, Interval, now, FALSE, 0)
            IN  IF ~rr.r.ok
                THEN /\ Finish(p, call[p], NilVal, ErrRateLimited(now + HoursPerDay),
                               [aux[p] EXCEPT !.cause = ErrRateLimited(now + HoursPerDay)])
                     /\ UNCHANGED <<lim, past>>
                ELSE /\ lim' = rr.lim
                     /\ rsv' = [rsv EXCEPT ![p] = rr.r]
                     /\ pc' = [pc EXCEPT ![p] = "delay"]
                     /\ UNCHANGED <<res, aux, past, call>>
       ELSE IF CtxDone(ctx, now)
       THEN /\ Finish(p, call[p], NilVal, WrapW(CtxErr(ctx, now)),
                      [aux[p] EXCEPT !.cause = CtxErr(ctx, now)])
            /\ UNCHANGED <<lim, past>>
       ELSE LET rr == ReserveN(lim, Interval, now, ctx.hasDeadline, ctx.deadline - now)
            IN  IF ~rr.r.ok
                THEN /\ Finish(p, call[p], NilVal,
                               WrapW(PlainError("rate: would exceed context deadline")),
                               [aux[p] EXCEPT !.cause = PlainError("rate: would exceed context deadline")])
                     /\ UNCHANGED <<lim, past>>
                ELSE /\ lim' = rr.lim
                     /\ IF BlockDelay(rr.r, now) = 0
                        THEN Granted(p, rr.r.timeToAct)
                        ELSE /\ pc' = [pc EXCEPT ![p] = "waiting"]
                             /\ rsv' = [rsv EXCEPT ![p] = rr.r]
                             /\ aux' = [aux EXCEPT ![p].delay = BlockDelay(rr.r, now)]
                             /\ UNCHANGED <<past, call, res>>
    /\ UNCHANGED <<now, items, cfg, ncalls, aside>>

\* fail-fast: delay := reservation.Delay()
CheckDelay(p) ==
    /\ pc[p] = "delay"
    /\ LET d == DelayFrom(rsv[p], now)
       IN  IF d > 0
           THEN /\ pc' = [pc EXCEPT ![p] = "cancel"]
                /\ aux' = [aux EXCEPT ![p].delay = d]
                /\ UNCHANGED <<past, rsv, call, res>>
           ELSE Granted(p, rsv[p].timeToAct)
    /\ UNCHANGED <<now, items, cfg, lim, ncalls, aside>>

\* fail-fast: reservation.Cancel() and the RateLimited error
CancelReservation(p) ==
    /\ pc[p] = "cancel"
    /\ lim' = CancelAt(lim, Interval, rsv[p], now)
    /\ Finish(p, call[p], NilVal, ErrRateLimited(now + aux[p].delay),
              [aux[p] EXCEPT !.cause = ErrRateLimited(now + aux[p].delay)])
    /\ UNCHANGED <<now, items, cfg, past, ncalls, aside>>

\* block: the timer of Wait fires
WaitGranted(p) ==
    /\ pc[p] = "waiting"
    /\ BlockDelay(rsv[p], now) = 0
    /\ Granted(p, rsv[p].timeToAct)
    /\ UNCHANGED <<now, items, cfg, lim, ncalls, aside>>

\* block: the context ends the wait; Wait cancels its reservation
WaitCancelled(p) ==
    /\ pc[p] = "waiting"
    /\ CtxDone(call[p].ctx, now)
    /\ lim' = CancelAt(lim, Interval, rsv[p], now)
    /\ Finish(p, call[p], NilVal, WrapW(CtxErr(call[p].ctx, now)),
              [aux[p] EXCEPT !.cause = CtxErr(call[p].ctx, now)])
    /\ UNCHANGED <<now, items, cfg, past, ncalls, aside>>

\* newRequest and the start of c.httpClient.Do(req)
Dispatch(p) ==
    /\ pc[p] = "dispatch"
    /\ pc' = [pc EXCEPT ![p] = "inflight"]
    /\ aux' = [aux EXCEPT ![p].dispatches = @ + 1, ![p].dispAt = now]
    /\ UNCHANGED <<now, items, cfg, lim, call, rsv, res, past, ncalls, aside>>

\* the transport answers; doRequest classifies or decodes; the result is cached
Respond(p, out) ==
    /\ pc[p] = "inflight"
    /\ out.kind = "ctx" => CtxDone(call[p].ctx, now)
    /\ LET c == call[p]
           key == CacheKey(c.op, c.q, c.opts)
           d == doRequest(c.op, c.q, c.ctx, out, now)
           a == [aux[p] EXCEPT !.status = out.status, !.decoded = d.decoded, !.cause = d.cause]
       IN  IF d.err # NilErr
           THEN /\ IF AfterFailure = "done"
                   THEN Finish(p, c, NilVal, WrapCall(d.err), a)
                   ELSE /\ pc' = [pc EXCEPT ![p] = AfterFailure]
                        /\ aux' = [aux EXCEPT ![p] = a]
                        /\ UNCHANGED <<call, res, rsv>>
                /\ UNCHANGED <<items, past>>
           ELSE LET its == CacheSet(cfg.cache, items, key, Marshal(c.op, d.v), TTLOf(c.op), now)
                IN  /\ Finish(p, c, d.v, NilErr, [a EXCEPT !.sets = 1, !.logged = Log(draft, "completed")])
                    /\ items' = its
                    /\ past' = [PastAfterReplace(past, key) EXCEPT ![p] = PastAfterSuccess(p, key, d.v, its)]
    /\ UNCHANGED <<now, cfg, lim, ncalls, aside>>

\* the caller cancels the context of its call
CancelCtx(p) ==
    /\ pc[p] \in {"rate", "delay", "cancel", "waiting", "dispatch", "inflight"}
    /\ call[p].ctx.cancelable
    /\ ~call[p].ctx.cancelled
    /\ call' = [call EXCEPT ![p].ctx.cancelled = TRUE]
    /\ UNCHANGED <<now, items, cfg, lim, pc, rsv, res, aux, past, ncalls, aside>>

\* the owner of the cache deletes a key, present or not
ExtDelete(key) ==
    /\ items' = CacheDelete(cfg.cache, items, key)
    /\ past' = PastAfterRemove({key})
    /\ cset' = [k \in DOMAIN cset \ {key} |-> cset[k]]
    /\ UNCHANGED <<now, cfg, lim, pc, call, rsv, res, aux, ncalls, cget, draft, nw, cls, sw, rq, lk>>

\* the owner of the cache clears it, empty or not
ExtClear ==
    /\ items' = CacheClear(cfg.cache, items)
    /\ past' = PastAfterRemove(DOMAIN items)
    /\ cset' = NoCSet
    /\ UNCHANGED <<now, cfg, lim, pc, call, rsv, res, aux, ncalls, cget, draft, nw, cls, sw, rq, lk>>

\* the background task of the cache: one removeExpired
Sweep ==
    /\ cfg.cache = "inmem"
    /\ items' = RemoveExpired(items, now)
    /\ items' # items
    /\ UNCHANGED <<now, cfg, lim, pc, call, rsv, res, aux, past, ncalls, aside>>

\* time passes
Tick ==
    /\ now < MaxTime
    /\ now' = now + 1
    /\ UNCHANGED <<items, cfg, lim, pc, call, rsv, res, aux, past, ncalls, aside>>

Init ==
    /\ now = 0
    /\ items = NoItems
    /\ cfg \in Configs
    /\ lim = NewLimiter(IntervalOf(cfg.perDay))
    /\ pc = [p \in Procs |-> "idle"]
    /\ call = [p \in Procs |-> NoCall]
    /\ rsv = [p \in Procs |-> NoReservation]
    /\ res = [p \in Procs |-> NoResult]
    /\ aux = [p \in Procs |-> NoAux]
    /\ past = [p \in Procs |-> NoPast]
    /\ ncalls = 0
    /\ cget = NoCGet
    /\ cset = NoCSet
    /\ draft = NoDraft
    /\ nw = NoNew
    /\ cls = NoCls
    /\ sw = NoSweeper
    /\ rq = NoRequest
    /\ lk = NoLock

\* the sequential specification: one caller
Callers == {"p1"}

Next ==
    \/ \E p \in Callers, op \in Ops, q \in Queries :
         \E opts \in OptsOf(op), ctx \in CtxChoices(now) :
            ncalls < MaxCalls /\ Call(p, op, q, opts, ctx)
    \/ \E p \in Callers : RateGate(p)
    \/ \E p \in Callers : CheckDelay(p)
    \/ \E p \in Callers : CancelReservation(p)
    \/ \E p \in Callers : WaitGranted(p)
    \/ \E p \in Callers : WaitCancelled(p)
    \/ \E p \in Callers : Dispatch(p)
    \/ \E p \in Callers, out \in Outcomes : Respond(p, out)
    \/ \E p \in Callers : CancelCtx(p)
    \/ \E key \in DOMAIN items : ExtDelete(key)
    \/ ExtClear
    \/ Sweep
    \/ Tick

Spec == Init /\ [][Next]_vars

-----------------------------------------------------------------------------
(* The concurrent specification: two callers on one client, on one key *)

MaxConcCalls == 3

ConcCtx == {WithCancel}

ConcOutcomes ==
    [kind : {"response"}, status : {200}, body : [shape : {"object"}, v : Vals]]

NextConc ==
    \/ \E p \in Procs, ctx \in ConcCtx :
         ncalls < MaxConcCalls /\ Call(p, "search", <<"m">>, NilOpts, ctx)
    \/ \E p \in Procs : RateGate(p)
    \/ \E p \in Procs : CheckDelay(p)
    \/ \E p \in Procs : CancelReservation(p)
    \/ \E p \in Procs : WaitGranted(p)
    \/ \E p \in Procs : WaitCancelled(p)
    \/ \E p \in Procs : Dispatch(p)
    \/ \E p \in Procs, out \in ConcOutcomes : Respond(p, out)
    \/ \E p \in Procs : CancelCtx(p)
    \/ \E key \in DOMAIN items : ExtDelete(key)
    \/ ExtClear
    \/ Sweep
    \/ Tick

SpecConc == Init /\ [][NextConc]_vars

-----------------------------------------------------------------------------
(* The request pipeline over a day: one caller, one query, and a clock that *)
(* reaches the instants around the detail time-to-live.                     *)

MaxLate == 2

\* the instants the clock passes through once the first hours are over
LateInstants == DetailTTL .. DetailTTL + MaxLate

\* the options each operation is called with here
DayOpts(op) == IF op = "search" THEN NilOpts ELSE DetailOptions(<<"e", "n">>)

DayOutcomes ==
    [kind : {"response"}, status : {200}, body : [shape : {"object"}, v : Vals]]
    \cup [kind : {"response"}, status : {StatusNotFound}, body : {NoBody}]

\* time passes, up to a day and more
Elapse(t) ==
    /\ now < t
    /\ now' = t
    /\ UNCHANGED <<items, cfg, lim, pc, call, rsv, res, aux, past, ncalls, aside>>

NextDay ==
    \/ \E p \in Callers, op \in Ops, ctx \in ConcCtx :
         ncalls < MaxCalls /\ Call(p, op, <<"m">>, DayOpts(op), ctx)
    \/ \E p \in Callers : RateGate(p)
    \/ \E p \in Callers : CheckDelay(p)
    \/ \E p \in Callers : CancelReservation(p)
    \/ \E p \in Callers : WaitGranted(p)
    \/ \E p \in Callers : WaitCancelled(p)
    \/ \E p \in Callers : Dispatch(p)
    \/ \E p \in Callers, out \in DayOutcomes : Respond(p, out)
    \/ \E p \in Callers : CancelCtx(p)
    \/ Sweep
    \/ Tick
    \/ \E t \in LateInstants : Elapse(t)

SpecDay == Init /\ [][NextDay]_vars

-----------------------------------------------------------------------------
(* The request pipeline of a client built with the governor disabled: two
   callers, either behaviour mode, either cache. *)

\* the options that touch the governor, the behaviour mode and the cache
RateOptions ==
    {Opt("WithRateLimit", "", "", n) : n \in RateChoices}
    \cup {Opt("DisableRateLimit", "", "", 0)}
    \cup {Opt("WithRateLimitBehavior", a, "", 0) : a \in {"RateLimitWait", "RateLimitError"}}
    \cup {Opt("WithCache", "noop", "", 0)}

\* the lists of options in which DisableRateLimit is the last rate option
DisablingLists ==
    {os \in UNION {[1 .. n -> RateOptions] : n \in 1 .. MaxOpts} :
        \E i \in DOMAIN os :
            /\ os[i].name = "DisableRateLimit"
            /\ \A j \in DOMAIN os : j > i => os[j].name # "WithRateLimit"}

RECURSIVE ApplyOptions(_, _)
\* New: for _, opt := range opts { opt(client) }, every option here is accepted
ApplyOptions(c, os) ==
    IF os = <<>> THEN c ELSE ApplyOptions(ApplyOption(c, Head(os)).c, Tail(os))

\* the configuration the pipeline reads from the Client; the rate of a nil
\* limiter is never read
ConfigOf(c) ==
    [cache |-> c.cache, limiter |-> c.perDay > 0,
     perDay |-> IF c.perDay > 0 THEN c.perDay ELSE CHOOSE n \in RateChoices : TRUE,
     behavior |-> c.behavior]

InitOff ==
    /\ now = 0
    /\ items = NoItems
    /\ cfg \in {ConfigOf(ApplyOptions(DefaultClient, os)) : os \in DisablingLists}
    /\ lim = NewLimiter(IntervalOf(cfg.perDay))
    /\ pc = [p \in Procs |-> "idle"]
    /\ call = [p \in Procs |-> NoCall]
    /\ rsv = [p \in Procs |-> NoReservation]
    /\ res = [p \in Procs |-> NoResult]
    /\ aux = [p \in Procs |-> NoAux]
    /\ past = [p \in Procs |-> NoPast]
    /\ ncalls = 0
    /\ cget = NoCGet
    /\ cset = NoCSet
    /\ draft = NoDraft
    /\ nw = NoNew
    /\ cls = NoCls
    /\ sw = NoSweeper
    /\ rq = NoRequest
    /\ lk = NoLock

NextOff ==
    \/ \E p \in Procs, ctx \in ConcCtx :
         ncalls < MaxConcCalls /\ Call(p, "search", <<"m">>, NilOpts, ctx)
    \/ \E p \in Procs : RateGate(p)
    \/ \E p \in Procs : Dispatch(p)
    \/ \E p \in Procs, out \in DayOutcomes : Respond(p, out)
    \/ \E p \in Procs : CancelCtx(p)
    \/ \E key \in DOMAIN items : ExtDelete(key)
    \/ ExtClear
    \/ Sweep
    \/ Tick

SpecOff == InitOff /\ [][NextOff]_vars

-----------------------------------------------------------------------------
(* The in-memory cache on its own: Set, Get, Delete, Clear, the sweep, time *)

CacheKeys == {<<"a">>, <<"b">>}

Payloads == [shape : {"array"}, v : Vals]

\* a time.Duration may be negative
TTLs == -1 .. MaxTTL

\* the configuration under which the cache actions run
CacheConfig ==
    [cache |-> "inmem", limiter |-> FALSE, perDay |-> DefaultRateLimit, behavior |-> "RateLimitWait"]

\* InMemoryCache.Set / NoOpCache.Set
Set(key, value, ttl) ==
    /\ items' = CacheSet(cfg.cache, items, key, value, ttl, now)
    /\ cset' = [k \in DOMAIN cset \cup {key} |->
                  IF k = key THEN [value |-> value, at |-> now, ttl |-> ttl] ELSE cset[k]]
    /\ UNCHANGED <<now, cfg, lim, pc, call, rsv, res, aux, past, ncalls, cget, draft, nw, cls, sw, rq, lk>>

\* InMemoryCache.Get / NoOpCache.Get
Get(key) ==
    /\ LET g == CacheGet(cfg.cache, items, key, now)
       IN  cget' = [key |-> key, found |-> g.found, value |-> g.value, at |-> now, done |-> TRUE]
    /\ UNCHANGED <<now, items, cfg, lim, pc, call, rsv, res, aux, past, ncalls, cset, draft, nw, cls, sw, rq, lk>>

InitCache ==
    /\ now = 0
    /\ items = NoItems
    /\ cfg = CacheConfig
    /\ lim = NewLimiter(IntervalOf(cfg.perDay))
    /\ pc = [p \in Procs |-> "idle"]
    /\ call = [p \in Procs |-> NoCall]
    /\ rsv = [p \in Procs |-> NoReservation]
    /\ res = [p \in Procs |-> NoResult]
    /\ aux = [p \in Procs |-> NoAux]
    /\ past = [p \in Procs |-> NoPast]
    /\ ncalls = 0
    /\ cget = NoCGet
    /\ cset = NoCSet
    /\ draft = NoDraft
    /\ nw = NoNew
    /\ cls = NoCls
    /\ sw = NoSweeper
    /\ rq = NoRequest
    /\ lk = NoLock

NextCache ==
    \/ \E key \in CacheKeys, value \in Payloads, ttl \in TTLs : Set(key, value, ttl)
    \/ \E key \in CacheKeys : Get(key)
    \/ \E key \in CacheKeys : ExtDelete(key)
    \/ ExtClear
    \/ Sweep
    \/ Tick

SpecCache == InitCache /\ [][NextCache]_vars

-----------------------------------------------------------------------------
(* A client configured with the no-op cache: one caller, and the owner of  *)
(* the cache calling Set, Get, Delete and Clear on it.                     *)

\* the key the owner of the cache shares with the pipeline
NoOpKeys == {CacheKey("search", <<"m">>, DayOpts("search"))}

InitNoOp == Init /\ cfg.cache = "noop"

NextNoOp ==
    \/ \E p \in Callers, op \in Ops, ctx \in ConcCtx :
         ncalls < MaxCalls /\ Call(p, op, <<"m">>, DayOpts(op), ctx)
    \/ \E p \in Callers : RateGate(p)
    \/ \E p \in Callers : CheckDelay(p)
    \/ \E p \in Callers : CancelReservation(p)
    \/ \E p \in Callers : WaitGranted(p)
    \/ \E p \in Callers : WaitCancelled(p)
    \/ \E p \in Callers : Dispatch(p)
    \/ \E p \in Callers, out \in DayOutcomes : Respond(p, out)
    \/ \E p \in Callers : CancelCtx(p)
    \/ \E key \in NoOpKeys, value \in Payloads : Set(key, value, MaxTTL)
    \/ \E key \in NoOpKeys : Get(key)
    \/ \E key \in NoOpKeys : ExtDelete(key)
    \/ ExtClear
    \/ Tick

SpecNoOp == InitNoOp /\ [][NextNoOp]_vars

-----------------------------------------------------------------------------
(* The response classifier on its own *)

StatusLo == 100

StatusHi == 599

Endpoints == {EndpointPath(op, <<"m">>) : op \in Ops}

\* newAPIError(resp, endpoint) applied to the response drawn
Classify ==
    /\ cls.used /\ ~cls.done
    /\ cls' = [cls EXCEPT !.err = newAPIError(cls.status, cls.endpoint), !.done = TRUE]
    /\ UNCHANGED <<now, items, cfg, lim, pc, call, rsv, res, aux, past, ncalls,
                   cget, cset, draft, nw, sw, rq, lk>>

InitClassify ==
    /\ now = 0
    /\ items = NoItems
    /\ cfg = CacheConfig
    /\ lim = NewLimiter(IntervalOf(cfg.perDay))
    /\ pc = [p \in Procs |-> "idle"]
    /\ call = [p \in Procs |-> NoCall]
    /\ rsv = [p \in Procs |-> NoReservation]
    /\ res = [p \in Procs |-> NoResult]
    /\ aux = [p \in Procs |-> NoAux]
    /\ past = [p \in Procs |-> NoPast]
    /\ ncalls = 0
    /\ cget = NoCGet
    /\ cset = NoCSet
    /\ draft = NoDraft
    /\ nw = NoNew
    /\ cls \in [used : {TRUE}, status : StatusLo .. StatusHi, endpoint : Endpoints,
                err : {NilErr}, done : {FALSE}]
    /\ sw = NoSweeper
    /\ rq = NoRequest
    /\ lk = NoLock

NextClassify == Classify

SpecClassify == InitClassify /\ [][NextClassify]_vars

-----------------------------------------------------------------------------
(* Construction: the steps of New *)

\* an option loop that goes on after an option has failed
AfterRejectContinue == "options"

\* if err := opt(client); err != nil { return nil, err }
AfterReject == "failed"

\* New, the option loop: one option is applied; an error ends New
NewOption(o) ==
    /\ nw.used /\ nw.stage = "options"
    /\ nw.n < MaxOpts
    /\ LET r == ApplyOption(draft, o)
       IN  IF r.err # NilErr
           THEN /\ nw' = [nw EXCEPT !.stage = AfterReject, !.err = r.err, !.rejected = TRUE,
                                    !.n = @ + 1, !.last = o]
                /\ UNCHANGED draft
           ELSE /\ draft' = r.c
                /\ nw' = [nw EXCEPT !.n = @ + 1, !.last = o,
                                    !.key = @ \/ o.name = "WithAPIKey",
                                    !.oauth = @ \/ o.name = "WithOAuth2",
                                    !.supplied = IF o.name = "WithHTTPClient" THEN o.a ELSE @]
    /\ UNCHANGED <<now, items, cfg, lim, pc, call, rsv, res, aux, past, ncalls, cget, cset, cls, sw, rq, lk>>

\* New, after the loop: configureAuth, then validate, then the client is returned
NewResolve ==
    /\ nw.used /\ nw.stage = "options"
    /\ LET r == configureAuth(draft)
       IN  IF r.err # NilErr
           THEN /\ nw' = [nw EXCEPT !.stage = "failed", !.err = r.err]
                /\ UNCHANGED draft
           ELSE IF validate(r.c) # NilErr
           THEN /\ nw' = [nw EXCEPT !.stage = "failed", !.err = validate(r.c), !.logged = r.logged]
                /\ draft' = r.c
           ELSE /\ nw' = [nw EXCEPT !.stage = "ok", !.logged = r.logged]
                /\ draft' = r.c
    /\ UNCHANGED <<now, items, cfg, lim, pc, call, rsv, res, aux, past, ncalls, cget, cset, cls, sw, rq, lk>>

InitNew ==
    /\ now = 0
    /\ items = NoItems
    /\ cfg = CacheConfig
    /\ lim = NewLimiter(IntervalOf(cfg.perDay))
    /\ pc = [p \in Procs |-> "idle"]
    /\ call = [p \in Procs |-> NoCall]
    /\ rsv = [p \in Procs |-> NoReservation]
    /\ res = [p \in Procs |-> NoResult]
    /\ aux = [p \in Procs |-> NoAux]
    /\ past = [p \in Procs |-> NoPast]
    /\ ncalls = 0
    /\ cget = NoCGet
    /\ cset = NoCSet
    /\ draft = DefaultClient
    /\ nw = StartNew
    /\ cls = NoCls
    /\ sw = NoSweeper
    /\ rq = NoRequest
    /\ lk = NoLock

NextNew ==
    \/ \E o \in Options : NewOption(o)
    \/ NewResolve

SpecNew == InitNew /\ [][NextNew]_vars

-----------------------------------------------------------------------------
(* The cleanup goroutine of the in-memory cache, Close and the cache lock. *)
(* The ticker's period (5 minutes) is far below the clock's unit, so a     *)
(* tick may arrive at any moment.                                          *)

\* the time-to-live values a caller of Set passes here
SweepTTLs == 1 .. MaxTTL

\* the payload a caller of Set passes here
SweepPayload == [shape |-> "array", v |-> NilVal]

\* a stop channel that is never ready
StopNever == FALSE

\* case <-c.stop: a closed channel is always ready to be received from
StopReady == sw.closed

\* case <-ticker.C: a tick is buffered in the channel
TickReady == sw.tick

\* the time.Ticker sends on ticker.C (capacity 1: a tick is dropped while
\* one is pending); the deferred ticker.Stop ends it
TickerFires ==
    /\ sw.used /\ sw.pc # "stopped" /\ ~sw.tick
    /\ sw' = [sw EXCEPT !.tick = TRUE]
    /\ UNCHANGED <<now, items, cfg, lim, pc, call, rsv, res, aux, past, ncalls,
                   cget, cset, draft, nw, cls, rq, lk>>

\* cleanup: the select takes the ticker's case (any ready case may be taken)
SelectTick ==
    /\ sw.used /\ sw.pc = "select" /\ TickReady
    /\ sw' = [sw EXCEPT !.pc = "lock", !.tick = FALSE, !.late = @ \/ sw.closed]
    /\ UNCHANGED <<now, items, cfg, lim, pc, call, rsv, res, aux, past, ncalls,
                   cget, cset, draft, nw, cls, rq, lk>>

\* cleanup: the select takes the stop case and the goroutine returns
SelectStop ==
    /\ sw.used /\ sw.pc = "select" /\ StopReady
    /\ sw' = [sw EXCEPT !.pc = "stopped"]
    /\ UNCHANGED <<now, items, cfg, lim, pc, call, rsv, res, aux, past, ncalls,
                   cget, cset, draft, nw, cls, rq, lk>>

\* removeExpired: c.mu.Lock()
SweepLock ==
    /\ sw.used /\ sw.pc = "lock" /\ sw.mu = "free"
    /\ sw' = [sw EXCEPT !.pc = "sweep", !.mu = "cleanup"]
    /\ UNCHANGED <<now, items, cfg, lim, pc, call, rsv, res, aux, past, ncalls,
                   cget, cset, draft, nw, cls, rq, lk>>

\* removeExpired: the loop over c.items and the deferred c.mu.Unlock()
SweepRun ==
    /\ sw.used /\ sw.pc = "sweep"
    /\ items' = RemoveExpired(items, now)
    /\ sw' = [sw EXCEPT !.pc = "select", !.mu = "free",
                        !.gone = @ \/ (sw.closed /\ items' # items)]
    /\ UNCHANGED <<now, cfg, lim, pc, call, rsv, res, aux, past, ncalls,
                   cget, cset, draft, nw, cls, rq, lk>>

\* InMemoryCache.Close, called once: close(c.stop)
Close ==
    /\ sw.used /\ ~sw.closed
    /\ sw' = [sw EXCEPT !.closed = TRUE, !.at = sw.pc,
                        !.blocked = (sw.pc = "lock" /\ sw.mu = "user")]
    /\ UNCHANGED <<now, items, cfg, lim, pc, call, rsv, res, aux, past, ncalls,
                   cget, cset, draft, nw, cls, rq, lk>>

\* InMemoryCache.Set: c.mu.Lock()
SetLock(key, value, ttl) ==
    /\ sw.used /\ sw.mu = "free"
    /\ sw' = [sw EXCEPT !.mu = "user",
                        !.user = <<[key |-> key, value |-> value, ttl |-> ttl]>>]
    /\ UNCHANGED <<now, items, cfg, lim, pc, call, rsv, res, aux, past, ncalls,
                   cget, cset, draft, nw, cls, rq, lk>>

\* InMemoryCache.Set: the store and the deferred c.mu.Unlock()
SetStore ==
    /\ sw.used /\ sw.mu = "user"
    /\ items' = CacheSet("inmem", items, sw.user[1].key, sw.user[1].value, sw.user[1].ttl, now)
    /\ sw' = [sw EXCEPT !.mu = "free", !.user = <<>>]
    /\ UNCHANGED <<now, cfg, lim, pc, call, rsv, res, aux, past, ncalls,
                   cget, cset, draft, nw, cls, rq, lk>>

InitSweep ==
    /\ now = 0
    /\ items = NoItems
    /\ cfg = CacheConfig
    /\ lim = NewLimiter(IntervalOf(cfg.perDay))
    /\ pc = [p \in Procs |-> "idle"]
    /\ call = [p \in Procs |-> NoCall]
    /\ rsv = [p \in Procs |-> NoReservation]
    /\ res = [p \in Procs |-> NoResult]
    /\ aux = [p \in Procs |-> NoAux]
    /\ past = [p \in Procs |-> NoPast]
    /\ ncalls = 0
    /\ cget = NoCGet
    /\ cset = NoCSet
    /\ draft = NoDraft
    /\ nw = NoNew
    /\ cls = NoCls
    /\ sw = StartSweeper
    /\ rq = NoRequest
    /\ lk = NoLock

NextSweep ==
    \/ TickerFires
    \/ SelectTick
    \/ SelectStop
    \/ SweepLock
    \/ SweepRun
    \/ Close
    \/ \E key \in CacheKeys, ttl \in SweepTTLs : SetLock(key, SweepPayload, ttl)
    \/ SetStore
    \/ Tick

SpecSweep == InitSweep /\ [][NextSweep]_vars

\* Scheduling: the goroutine runs when it can; a select with the closed stop
\* channel ready takes that case sooner or later (the choice among ready
\* cases is uniformly random); sync.RWMutex hands the lock to a waiting
\* writer; a caller inside Set leaves it.
SpecSweepFair ==
    /\ SpecSweep
    /\ SF_vars(SelectStop)
    /\ SF_vars(SweepLock)
    /\ WF_vars(SweepRun)
    /\ WF_vars(SetStore)

-----------------------------------------------------------------------------
(* The outbound request: newRequest, the query parameters, and the static- *)
(* key transport that sends it.                                            *)

\* queries and ids, plain and with the characters url.Parse gives a meaning
RequestQueries == {<<"m">>, <<"m", "?", "x">>, <<"m", "#", "x">>}

RequestOpts(op) ==
    IF op = "search"
    THEN {NilOpts} \cup {SearchOptions(n, u) : n \in {0, 10}, u \in BOOLEAN}
    ELSE {NilOpts, DetailOptions(<<>>), DetailOptions(<<"e", "n">>)}

APIKeys == {"k1", "k2"}

\* c.newRequest(ctx, "GET", path, nil)
NewRequest ==
    /\ rq.used /\ rq.stage = "start"
    /\ rq' = [rq EXCEPT !.req = newRequest(rq.op, rq.q, 1), !.heap[1] = DefaultHeaders,
                        !.stage = "built"]
    /\ UNCHANGED <<now, items, cfg, lim, pc, call, rsv, res, aux, past, ncalls,
                   cget, cset, draft, nw, cls, sw, lk>>

\* q := req.URL.Query(); q.Set(...); req.URL.RawQuery = q.Encode()
AddParams ==
    /\ rq.used /\ rq.stage = "built"
    /\ rq' = [rq EXCEPT !.req.params = WithParams(rq.op, rq.q, rq.opts, @),
                        !.stage = "ready"]
    /\ UNCHANGED <<now, items, cfg, lim, pc, call, rsv, res, aux, past, ncalls,
                   cget, cset, draft, nw, cls, sw, lk>>

\* apiKeyTransport.RoundTrip: req = req.Clone(req.Context())
RoundTripClone ==
    /\ rq.used /\ rq.stage = "ready"
    /\ LET h == ClonedHeader(rq.req.hdr)
       IN  rq' = [rq EXCEPT !.cur = [rq.req EXCEPT !.hdr = h],
                           !.heap[h] = rq.heap[rq.req.hdr],
                           !.stage = "cloned"]
    /\ UNCHANGED <<now, items, cfg, lim, pc, call, rsv, res, aux, past, ncalls,
                   cget, cset, draft, nw, cls, sw, lk>>

\* apiKeyTransport.RoundTrip: req.Header.Set("Authorization", "Token "+t.apiKey)
RoundTripAuthorize ==
    /\ rq.used /\ rq.stage = "cloned"
    /\ rq' = [rq EXCEPT !.heap[rq.cur.hdr]["Authorization"] = "Token " \o rq.apiKey,
                        !.stage = "authorized"]
    /\ UNCHANGED <<now, items, cfg, lim, pc, call, rsv, res, aux, past, ncalls,
                   cget, cset, draft, nw, cls, sw, lk>>

\* apiKeyTransport.RoundTrip: return t.transport.RoundTrip(req)
RoundTripSend ==
    /\ rq.used /\ rq.stage = "authorized"
    /\ rq' = [rq EXCEPT !.wire = [method |-> rq.cur.method, path |-> rq.cur.path,
                                   params |-> rq.cur.params, headers |-> rq.heap[rq.cur.hdr]],
                        !.stage = "sent"]
    /\ UNCHANGED <<now, items, cfg, lim, pc, call, rsv, res, aux, past, ncalls,
                   cget, cset, draft, nw, cls, sw, lk>>

InitRequest ==
    /\ now = 0
    /\ items = NoItems
    /\ cfg = CacheConfig
    /\ lim = NewLimiter(IntervalOf(cfg.perDay))
    /\ pc = [p \in Procs |-> "idle"]
    /\ call = [p \in Procs |-> NoCall]
    /\ rsv = [p \in Procs |-> NoReservation]
    /\ res = [p \in Procs |-> NoResult]
    /\ aux = [p \in Procs |-> NoAux]
    /\ past = [p \in Procs |-> NoPast]
    /\ ncalls = 0
    /\ cget = NoCGet
    /\ cset = NoCSet
    /\ draft = NoDraft
    /\ nw = NoNew
    /\ cls = NoCls
    /\ sw = NoSweeper
    /\ rq \in {StartRequest(op, q, opts, k) :
                 op \in Ops, q \in RequestQueries, opts \in RequestOpts("search") \cup RequestOpts("detail"),
                 k \in APIKeys}
    /\ rq.opts \in RequestOpts(rq.op)
    /\ lk = NoLock

NextRequest ==
    \/ NewRequest
    \/ AddParams
    \/ RoundTripClone
    \/ RoundTripAuthorize
    \/ RoundTripSend

SpecRequest == InitRequest /\ [][NextRequest]_vars

-----------------------------------------------------------------------------
(* The lock of the in-memory cache: goroutines calling Get, Set, Delete,   *)
(* Clear and removeExpired on one cache.  A call is a step that asks for   *)
(* c.mu, the steps it takes while holding it, and the deferred unlock.     *)
(* RLock is let through whenever no writer holds the lock; sync.RWMutex    *)
(* also holds a reader back while a writer waits, which only removes       *)
(* behaviours.                                                             *)

\* an entry that is expired as soon as it is stored, and one that is not
LockTTLs == {-1, 1}

LockPayload == [shape |-> "array", v |-> NilVal]

\* the calls a goroutine may make
LockOps ==
    [name : {"Get", "Delete"}, key : CacheKeys, ttl : {0}]
    \cup [name : {"Set"}, key : CacheKeys, ttl : LockTTLs]
    \cup [name : {"Clear", "removeExpired"}, key : {<<>>}, ttl : {0}]

\* a Lock that does not wait for the readers
CanLockBesideReaders == ~lk.w

\* c.mu.Lock(): granted when no writer and no reader holds the lock
CanLock == ~lk.w /\ lk.r = 0

\* c.mu.RLock(): granted when no writer holds the lock
CanRLock == ~lk.w

\* a goroutine enters Get, Set, Delete, Clear or removeExpired
Enter(g, op) ==
    /\ lk.used /\ lk.at[g] = "idle"
    /\ lk' = [lk EXCEPT !.at[g] = "wait", !.op[g] = op]
    /\ UNCHANGED <<now, items, cfg, lim, pc, call, rsv, res, aux, past, ncalls,
                   cget, cset, draft, nw, cls, sw, rq>>

\* Get: c.mu.RLock()
RLock(g) ==
    /\ lk.used /\ lk.at[g] = "wait" /\ lk.op[g].name = "Get"
    /\ CanRLock
    /\ lk' = [lk EXCEPT !.at[g] = "held", !.r = @ + 1]
    /\ UNCHANGED <<now, items, cfg, lim, pc, call, rsv, res, aux, past, ncalls,
                   cget, cset, draft, nw, cls, sw, rq>>

\* Set, Delete, Clear, removeExpired: c.mu.Lock()
Lock(g) ==
    /\ lk.used /\ lk.at[g] = "wait" /\ lk.op[g].name # "Get"
    /\ CanLock
    /\ lk' = [lk EXCEPT !.at[g] = "held", !.w = TRUE]
    /\ UNCHANGED <<now, items, cfg, lim, pc, call, rsv, res, aux, past, ncalls,
                   cget, cset, draft, nw, cls, sw, rq>>

\* Get: item, ok := c.items[key] and the expiration check
GetRead(g) ==
    /\ lk.used /\ lk.at[g] = "held" /\ lk.op[g].name = "Get"
    /\ lk' = [lk EXCEPT !.at[g] = "unlock", !.seen[g] = items]
    /\ UNCHANGED <<now, items, cfg, lim, pc, call, rsv, res, aux, past, ncalls,
                   cget, cset, draft, nw, cls, sw, rq>>

\* Set, Delete, Clear: the one statement that changes c.items
WriteOnce(g) ==
    /\ lk.used /\ lk.at[g] = "held" /\ lk.op[g].name \in {"Set", "Delete", "Clear"}
    /\ LET op == lk.op[g]
       IN  items' = IF op.name = "Set"
                    THEN CacheSet("inmem", items, op.key, LockPayload, op.ttl, now)
                    ELSE IF op.name = "Delete" THEN CacheDelete("inmem", items, op.key)
                    ELSE CacheClear("inmem", items)
    /\ lk' = [lk EXCEPT !.at[g] = "unlock"]
    /\ UNCHANGED <<now, cfg, lim, pc, call, rsv, res, aux, past, ncalls,
                   cget, cset, draft, nw, cls, sw, rq>>

\* removeExpired: one round of the loop deletes one expired entry
SweepDelete(g, key) ==
    /\ lk.used /\ lk.at[g] = "held" /\ lk.op[g].name = "removeExpired"
    /\ key \in DOMAIN items /\ Expired(items[key], now)
    /\ items' = [k \in DOMAIN items \ {key} |-> items[k]]
    /\ UNCHANGED <<now, cfg, lim, pc, call, rsv, res, aux, past, ncalls,
                   cget, cset, draft, nw, cls, sw, rq, lk>>

\* removeExpired: the loop has visited every entry
SweepEnd(g) ==
    /\ lk.used /\ lk.at[g] = "held" /\ lk.op[g].name = "removeExpired"
    /\ \A key \in DOMAIN items : ~Expired(items[key], now)
    /\ lk' = [lk EXCEPT !.at[g] = "unlock"]
    /\ UNCHANGED <<now, items, cfg, lim, pc, call, rsv, res, aux, past, ncalls,
                   cget, cset, draft, nw, cls, sw, rq>>

\* Get: the deferred c.mu.RUnlock()
RUnlock(g) ==
    /\ lk.used /\ lk.at[g] = "unlock" /\ lk.op[g].name = "Get"
    /\ lk' = [lk EXCEPT !.at[g] = "idle", !.op[g] = NoOp, !.seen[g] = NoItems, !.r = @ - 1]
    /\ UNCHANGED <<now, items, cfg, lim, pc, call, rsv, res, aux, past, ncalls,
                   cget, cset, draft, nw, cls, sw, rq>>

\* Set, Delete, Clear, removeExpired: the deferred c.mu.Unlock()
Unlock(g) ==
    /\ lk.used /\ lk.at[g] = "unlock" /\ lk.op[g].name # "Get"
    /\ lk' = [lk EXCEPT !.at[g] = "idle", !.op[g] = NoOp, !.w = FALSE, !.base = items]
    /\ UNCHANGED <<now, items, cfg, lim, pc, call, rsv, res, aux, past, ncalls,
                   cget, cset, draft, nw, cls, sw, rq>>

InitLock ==
    /\ now = 0
    /\ items = NoItems
    /\ cfg = CacheConfig
    /\ lim = NewLimiter(IntervalOf(cfg.perDay))
    /\ pc = [p \in Procs |-> "idle"]
    /\ call = [p \in Procs |-> NoCall]
    /\ rsv = [p \in Procs |-> NoReservation]
    /\ res = [p \in Procs |-> NoResult]
    /\ aux = [p \in Procs |-> NoAux]
    /\ past = [p \in Procs |-> NoPast]
    /\ ncalls = 0
    /\ cget = NoCGet
    /\ cset = NoCSet
    /\ draft = NoDraft
    /\ nw = NoNew
    /\ cls = NoCls
    /\ sw = NoSweeper
    /\ rq = NoRequest
    /\ lk = StartLock

NextLock ==
    \/ \E g \in Goroutines, op \in LockOps : Enter(g, op)
    \/ \E g \in Goroutines : RLock(g)
    \/ \E g \in Goroutines : Lock(g)
    \/ \E g \in Goroutines : GetRead(g)
    \/ \E g \in Goroutines : WriteOnce(g)
    \/ \E g \in Goroutines, key \in CacheKeys : SweepDelete(g, key)
    \/ \E g \in Goroutines : SweepEnd(g)
    \/ \E g \in Goroutines : RUnlock(g)
    \/ \E g \in Goroutines : Unlock(g)

SpecLock == InitLock /\ [][NextLock]_vars

-----------------------------------------------------------------------------
(* The life of a client: New builds it, returns it, and two callers use it *)

MaxLifeOpts == 3

MaxLifeCalls == 2

\* the options passed to New here, valid and invalid
LifeOptions ==
    {Opt("WithAPIKey", a, "", 0) : a \in {"k"}}
    \cup {Opt("WithBaseURL", a, "", 0) : a \in {"", "u"}}
    \cup {Opt("WithCache", a, "", 0) : a \in {"nil", "noop"}}
    \cup {Opt("WithRateLimit", "", "", n) : n \in RateChoices}
    \cup {Opt("WithRateLimitBehavior", a, "", 0) : a \in {"RateLimitError"}}
    \cup {Opt("WithLogger", a, "", 0) : a \in {"lg"}}

LifeOutcomes ==
    [kind : {"response"}, status : {200}, body : {[shape |-> "object", v |-> NilVal]}]
    \cup [kind : {"response"}, status : {404}, body : {NoBody}]

\* return client, nil: the option list of New goes out of scope; the callers
\* get the client and read its configuration
ReturnClient ==
    /\ nw.used /\ nw.stage = "ok"
    /\ nw' = [nw EXCEPT !.stage = "serving", !.n = 0, !.last = Opt("", "", "", 0)]
    /\ cfg' = ConfigOf(draft)
    /\ lim' = NewLimiter(IntervalOf(ConfigOf(draft).perDay))
    /\ UNCHANGED <<now, items, pc, call, rsv, res, aux, past, ncalls,
                   cget, cset, draft, cls, sw, rq, lk>>

NextLife ==
    \/ \E o \in LifeOptions : nw.n < MaxLifeOpts /\ NewOption(o)
    \/ NewResolve
    \/ ReturnClient
    \/ \E p \in Procs :
         nw.stage = "serving" /\ ncalls < MaxLifeCalls
         /\ Call(p, "search", <<"m">>, NilOpts, Background)
    \/ \E p \in Procs : RateGate(p)
    \/ \E p \in Procs : CheckDelay(p)
    \/ \E p \in Procs : CancelReservation(p)
    \/ \E p \in Procs : WaitGranted(p)
    \/ \E p \in Procs : Dispatch(p)
    \/ \E p \in Procs, out \in LifeOutcomes : Respond(p, out)
    \/ nw.stage = "serving" /\ Tick

SpecLife == InitNew /\ [][NextLife]_vars

-----------------------------------------------------------------------------
(* Cache keys: two callers on one client with the in-memory cache and no   *)
(* governor, each making one call; queries, ids and languages include      *)
(* strings that contain the separators of the key format.                  *)

KeyQueries == {<<"a">>, <<"a", ":", "&", "{", "b">>}

KeyOpts(op) ==
    IF op = "search"
    THEN {NilOpts, SearchOptions(0, FALSE), SearchOptions(-1, FALSE), SearchOptions(10, FALSE)}
    ELSE {NilOpts, DetailOptions(<<>>), DetailOptions(<<"c">>),
          DetailOptions(<<"b", ":", "&", "{", "c">>)}

KeyOutcomes ==
    [kind : {"response"}, status : {200}, body : {[shape |-> "object", v |-> "r1"]}]

NextKey ==
    \/ \E p \in Procs, op \in Ops, q \in KeyQueries :
         \E opts \in KeyOpts(op) : pc[p] = "idle" /\ Call(p, op, q, opts, Background)
    \/ \E p \in Procs : RateGate(p)
    \/ \E p \in Procs : Dispatch(p)
    \/ \E p \in Procs, out \in KeyOutcomes : Respond(p, out)

SpecKey == InitCache /\ [][NextKey]_vars

-----------------------------------------------------------------------------
(* A cache shared with its owner: one caller, and the owner of the cache   *)
(* storing payloads of its own under the keys the pipeline uses.           *)

SharedKeys == {CacheKey(op, <<"m">>, DayOpts(op)) : op \in Ops}

\* what the owner stores: a JSON array, which decodes into the result of
\* SearchPlants and not into that of GetPlantDetails
SharedPayloads == [shape : {"array"}, v : {"r2"}]

SharedOutcomes ==
    [kind : {"response"}, status : {200}, body : {[shape |-> "object", v |-> "r1"]}]
    \cup [kind : {"response"}, status : {StatusNotFound}, body : {NoBody}]

InitShared == Init /\ cfg.cache = "inmem"

NextShared ==
    \/ \E p \in Callers, op \in Ops :
         ncalls < MaxCalls /\ Call(p, op, <<"m">>, DayOpts(op), Background)
    \/ \E p \in Callers : RateGate(p)
    \/ \E p \in Callers : CheckDelay(p)
    \/ \E p \in Callers : CancelReservation(p)
    \/ \E p \in Callers : WaitGranted(p)
    \/ \E p \in Callers : Dispatch(p)
    \/ \E p \in Callers, out \in SharedOutcomes : Respond(p, out)
    \/ \E key \in SharedKeys, value \in SharedPayloads : Set(key, value, MaxTTL)
    \/ Tick

SpecShared == InitShared /\ [][NextShared]_vars

-----------------------------------------------------------------------------
(* Concurrent waiters: two callers on one client whose governor is on. The  *)
(* clock runs while a waiter's grant instant lies ahead, and every step of  *)
(* a call that is ready is eventually taken.                                *)

MaxWaitCalls == 3

\* a context that its caller may cancel or leave alone
WaitContexts == {WithCancel}

\* every answer of the transport ends the call the same way for the gate
WaitOutcomes == [kind : {"response"}, status : {200}, body : {[shape |-> "object", v |-> NilVal]}]

\* no cached result keeps a call away from the gate
InitWait == Init /\ cfg.limiter /\ cfg.cache = "noop"

\* time passes for as long as the timer of some waiter is not yet due
TimePasses ==
    /\ \E p \in Procs : pc[p] = "waiting" /\ now < rsv[p].timeToAct
    /\ now' = now + 1
    /\ UNCHANGED <<items, cfg, lim, pc, call, rsv, res, aux, past, ncalls, aside>>

NextWait ==
    \/ \E p \in Procs, ctx \in WaitContexts :
         ncalls < MaxWaitCalls /\ Call(p, "search", <<"m">>, NilOpts, ctx)
    \/ \E p \in Procs : RateGate(p)
    \/ \E p \in Procs : CheckDelay(p)
    \/ \E p \in Procs : CancelReservation(p)
    \/ \E p \in Procs : WaitGranted(p)
    \/ \E p \in Procs : WaitCancelled(p)
    \/ \E p \in Procs : Dispatch(p)
    \/ \E p \in Procs, out \in WaitOutcomes : Respond(p, out)
    \/ \E p \in Procs : CancelCtx(p)
    \/ TimePasses

SpecWait == InitWait /\ [][NextWait]_vars

\* the goroutine of a call runs when it can; the select of Wait takes a ready
\* case; the transport answers; the clock does not stop
SpecWaitFair ==
    /\ SpecWait
    /\ \A p \in Procs :
         /\ WF_vars(RateGate(p))
         /\ WF_vars(CheckDelay(p))
         /\ WF_vars(CancelReservation(p))
         /\ WF_vars(WaitGranted(p))
         /\ WF_vars(WaitCancelled(p))
         /\ WF_vars(Dispatch(p))
         /\ WF_vars(\E out \in WaitOutcomes : Respond(p, out))
    /\ WF_vars(TimePasses)

-----------------------------------------------------------------------------
(* Retrying after a RateLimited error: two callers on a fail-fast client    *)
(* whose every call reaches the gate.                                       *)

MaxRetryCalls == 4

InitRetry == Init /\ cfg.limiter /\ cfg.behavior = "RateLimitError" /\ cfg.cache = "noop"

NextRetry ==
    \/ \E p \in Procs :
         ncalls < MaxRetryCalls /\ Call(p, "search", <<"m">>, NilOpts, Background)
    \/ \E p \in Procs : RateGate(p)
    \/ \E p \in Procs : CheckDelay(p)
    \/ \E p \in Procs : CancelReservation(p)
    \/ \E p \in Procs : Dispatch(p)
    \/ \E p \in Procs, out \in WaitOutcomes : Respond(p, out)
    \/ Tick

SpecRetry == InitRetry /\ [][NextRetry]_vars

-----------------------------------------------------------------------------
(* New and the cleanup goroutine: the client literal of New calls          *)
(* NewInMemoryCache, which starts the goroutine before any option runs.    *)

InitNewSweep ==
    /\ now = 0
    /\ items = NoItems
    /\ cfg = CacheConfig
    /\ lim = NewLimiter(IntervalOf(cfg.perDay))
    /\ pc = [p \in Procs |-> "idle"]
    /\ call = [p \in Procs |-> NoCall]
    /\ rsv = [p \in Procs |-> NoReservation]
    /\ res = [p \in Procs |-> NoResult]
    /\ aux = [p \in Procs |-> NoAux]
    /\ past = [p \in Procs |-> NoPast]
    /\ ncalls = 0
    /\ cget = NoCGet
    /\ cset = NoCSet
    /\ draft = DefaultClient
    /\ nw = StartNew
    /\ cls = NoCls
    /\ sw = StartSweeper
    /\ rq = NoRequest
    /\ lk = NoLock

NextNewSweep ==
    \/ \E o \in LifeOptions : nw.n < MaxLifeOpts /\ NewOption(o)
    \/ NewResolve
    \/ TickerFires
    \/ SelectTick
    \/ SweepLock
    \/ SweepRun

SpecNewSweep == InitNewSweep /\ [][NextNewSweep]_vars

-----------------------------------------------------------------------------
(* Properties of the request pipeline *)

\* a status outside 200..299
Non2xx(status) == status < 200 \/ status >= 300

\* the step in which caller p enters a call
CallStep(p) == ncalls' = ncalls + 1 /\ aux'[p].n = ncalls'

\* a step taken by caller p's own call
MyStep(p) ==
    \/ CallStep(p)
    \/ pc'[p] # pc[p] \/ aux'[p] # aux[p] \/ call'[p] # call[p] \/ rsv'[p] # rsv[p]

\* what caller p's earlier success lets it expect of the call it enters now
Expected(p) == ExpectOf(p, CacheKey(call'[p].op, call'[p].q, call'[p].opts), now)

\* the call entered in this step returns value v at once, without a dispatch
AnsweredFromCache(p, v) ==
    /\ pc'[p] = "done"
    /\ res'[p] = [val |-> v, err |-> NilErr]
    /\ aux'[p].dispatches = 0

(* C1, as stated: after a call has succeeded, the caller's next call with the
   same query/id and options, made while the entry is unexpired and was neither
   deleted nor cleared, returns the first call's result without a dispatch. *)
C1_AsStated ==
    [][\A p \in Procs :
         (CallStep(p) /\ Expected(p).some) => AnsweredFromCache(p, Expected(p).val)]_vars

(* C1, amended: ... unexpired, neither deleted nor cleared, and not replaced
   since by the Set of another call on the same key ... *)
C1_CacheHitRepeats ==
    [][\A p \in Procs :
         (CallStep(p) /\ Expected(p).some /\ ~Expected(p).replaced)
            => AnsweredFromCache(p, Expected(p).val)]_vars

C1_Witness ==
    \E p \in Procs : pc[p] = "done" /\ aux[p].again /\ aux[p].hit /\ res[p].val \in Vals

(* C2: with the governor enabled, a call answered from the cache leaves the
   bucket of the governor as it was, in block and in fail-fast mode. *)
C2_HitLeavesBucket ==
    [][\A p \in Procs :
         (cfg.limiter /\ MyStep(p) /\ aux'[p].hit) => (lim' = lim /\ rsv'[p] = NoReservation)]_vars

C2_Witness ==
    \E p \in Procs :
        /\ cfg.limiter /\ cfg.behavior = "RateLimitError"
        /\ pc[p] = "done" /\ aux[p].hit /\ res[p].err = NilErr
        /\ lim.tokens < Burst * Interval

(* C3: a call with an empty query or id returns a Validation error and does
   nothing else: no lookup, no token, no dispatch, cache and governor unchanged. *)
C3_EmptyInputOnlyValidates ==
    [][\A p \in Procs :
         (CallStep(p) /\ call'[p].q = <<>>) =>
            /\ pc'[p] = "done"
            /\ res'[p].val = NilVal
            /\ Kinds(res'[p].err) = {"Validation"}
            /\ aux'[p].lookups = 0 /\ aux'[p].tokens = 0 /\ aux'[p].dispatches = 0
            /\ aux'[p].sets = 0
            /\ items' = items /\ lim' = lim /\ rsv'[p] = NoReservation]_vars

C3_Witness ==
    \E p \in Procs :
        /\ pc[p] = "done" /\ call[p].q = <<>> /\ call[p].op = "detail"
        /\ Kinds(res[p].err) = {"Validation"}
        /\ DOMAIN items # {}

(* C7: for every response whose status is not 2xx the call returns the error
   of the classifier and no result, and does not decode the body. *)
C7_Non2xxIsClassified ==
    \A p \in Procs :
        (pc[p] = "done" /\ aux[p].status # 0 /\ Non2xx(aux[p].status)) =>
            /\ res[p].val = NilVal
            /\ res[p].err = WrapCall(newAPIError(aux[p].status, EndpointPath(call[p].op, call[p].q)))
            /\ ~aux[p].decoded

\* the kind the taxonomy gives a status
StatusKind(status) ==
    CASE status \in {401, 403} -> "Unauthorized"
      [] status = 404 -> "NotFound"
      [] status = 429 -> "RateLimitExceeded"
      [] OTHER -> "API"

(* C8: every error a call returns is matched as the kind created at the
   failure site, through all wrapping, and as no second kind. *)
C8_KindSurvivesWrapping ==
    \A p \in Procs :
        (pc[p] = "done" /\ res[p].err # NilErr) =>
            /\ aux[p].cause # NilErr
            /\ Kinds(res[p].err) = Kinds(aux[p].cause)
            /\ Cardinality(Kinds(res[p].err)) <= 1
            /\ aux[p].status >= ErrorStatusFloor => Kinds(res[p].err) = {StatusKind(aux[p].status)}
            /\ aux[p].lookups = 0 => Kinds(res[p].err) = {"Validation"}

C8_Witness ==
    \E p \in Procs :
        /\ pc[p] = "done" /\ Kinds(res[p].err) = {"Cancellation"}
        /\ Len(res[p].err) >= 3

(* C10: in block mode, capacity 1, refill interval I: the second of two calls
   that miss the cache back to back gets no rate error; it suspends, and its
   dispatch starts no earlier than I after the first call took its token. *)
C10_BlockSpacesDispatches ==
    [][\A p \in Procs :
         (cfg.limiter /\ cfg.behavior = "RateLimitWait") =>
            /\ "RateLimited" \notin Kinds(res'[p].err)
            /\ (pc[p] = "dispatch" /\ pc'[p] = "inflight" /\ aux[p].prevTok)
                  => now >= aux[p].prevTokAt + Interval
            /\ (pc[p] = "rate" /\ pc'[p] # "rate" /\ aux[p].prevTok
                   /\ now < aux[p].prevTokAt + Interval /\ call[p].ctx = Background)
                  => pc'[p] = "waiting"]_vars

C10_Witness ==
    \E p \in Procs :
        /\ cfg.limiter /\ cfg.behavior = "RateLimitWait"
        /\ pc[p] = "inflight" /\ aux[p].prevTok /\ now = aux[p].prevTokAt + Interval

-----------------------------------------------------------------------------
(* Properties of the classifier and of the cache *)

(* C6: the classifier maps every non-2xx status to exactly one kind: 401 and
   403 to Unauthorized, 404 to NotFound, 429 to RateLimitExceeded, every other
   non-2xx status to the generic API error carrying that status and the
   endpoint path. *)
C6_ClassifierMapsStatus ==
    (cls.done /\ Non2xx(cls.status)) =>
        /\ Kinds(cls.err) = {StatusKind(cls.status)}
        /\ StatusKind(cls.status) = "API" => cls.err = APIError(cls.status, cls.endpoint)

C6_Witness == cls.done /\ cls.status = 302 /\ Kinds(cls.err) = {"API"}

(* C9: for the in-memory cache, after Set(key, payload, d) at time t with no
   later Set, Delete or Clear of the key, Get(key) returns the payload as found
   at every time up to and including t+d and not-found at every later time,
   swept or not. *)
C9_EntryLivesThroughTTL ==
    [][\A key \in CacheKeys :
         (cget' # cget /\ cget'.key = key /\ key \in DOMAIN cset) =>
            IF now <= cset[key].at + cset[key].ttl
            THEN cget'.found /\ cget'.value = cset[key].value
            ELSE ~cget'.found]_vars

C9_Witness ==
    /\ cget.done /\ cget.found /\ cget.key \in DOMAIN cset
    /\ cset[cget.key].ttl > 0
    /\ cget.at = cset[cget.key].at + cset[cget.key].ttl

-----------------------------------------------------------------------------
(* Properties of construction *)

\* New has returned
NewReturned == nw.used /\ nw.stage \in {"ok", "failed"}

\* the authentication schemes the options configured
SchemesConfigured == (IF nw.key THEN 1 ELSE 0) + (IF nw.oauth THEN 1 ELSE 0)

\* what C4 says of a call of New that has returned
AuthDecides ==
    /\ nw.stage = "ok" <=> SchemesConfigured = 1
    /\ SchemesConfigured = 2 => Kinds(nw.err) = {"MultipleAuth"}
    /\ SchemesConfigured = 0 => Kinds(nw.err) = {"NoAuth"}
    /\ Kinds(ErrMultipleAuthMethods) \cap Kinds(ErrNoAuthProvided) = {}

(* C4, as stated: with no caller-supplied transport configured, New succeeds
   iff exactly one of static key and OAuth2 id+secret is configured; both give
   the multiple-auth error, neither the no-auth error, and the two differ. *)
C4_AsStated == (NewReturned /\ nw.supplied = "nil") => AuthDecides

(* C4, amended: ... and with every option passed to New accepted by its own
   validation ... *)
C4_ExactlyOneAuth == (NewReturned /\ nw.supplied = "nil" /\ ~nw.rejected) => AuthDecides

C4_Witness ==
    /\ NewReturned /\ nw.supplied = "nil" /\ ~nw.rejected
    /\ nw.key /\ nw.oauth /\ Kinds(nw.err) = {"MultipleAuth"}

\* what C5 says of a call of New that has returned
TransportKept == nw.stage = "ok" /\ draft.httpClient = SuppliedClient(nw.supplied)

(* C5, as stated: with a caller-supplied non-nil transport among the options,
   authentication resolution is skipped: New succeeds with zero, one or both
   schemes configured and the client uses exactly the supplied object. *)
C5_AsStated == (NewReturned /\ nw.supplied # "nil") => TransportKept

(* C5, amended: ... and with every option passed to New accepted by its own
   validation ... *)
C5_SuppliedTransportKept == (NewReturned /\ nw.supplied # "nil" /\ ~nw.rejected) => TransportKept

C5_Witness ==
    /\ NewReturned /\ nw.supplied = "h2" /\ ~nw.rejected
    /\ nw.key /\ nw.oauth /\ nw.stage = "ok"

-----------------------------------------------------------------------------
(* Properties of the rate gate *)

\* the client runs the governor in fail-fast mode
FailFastMode == cfg.limiter /\ cfg.behavior = "RateLimitError"

\* the client runs the governor in block mode
BlockMode == cfg.limiter /\ cfg.behavior = "RateLimitWait"

\* the instant at which the bucket next holds a whole token
ReadyAt(l) == l.last + Burst * Interval - l.tokens

(* C11: in fail-fast mode (capacity 1, interval I) a call that misses the
   cache while no token is available returns at once with a RateLimited error
   whose resume-after instant is strictly later than the time of the call; it
   never suspends, dispatches nothing and writes nothing to the cache. *)
C11_FailFastRejects ==
    [][\A p \in Procs :
         FailFastMode =>
            /\ pc'[p] # "waiting"
            /\ (pc[p] = "delay" /\ pc'[p] # "delay" /\ DelayFrom(rsv[p], now) > 0)
                  => pc'[p] = "cancel"
            /\ (pc[p] = "cancel" /\ pc'[p] # "cancel") =>
                  /\ pc'[p] = "done"
                  /\ res'[p].val = NilVal
                  /\ Kinds(res'[p].err) = {"RateLimited"}
                  /\ res'[p].err[1].at > now
                  /\ aux'[p].dispatches = 0 /\ aux'[p].sets = 0
                  /\ items' = items]_vars

C11_Witness ==
    \E p \in Procs :
        /\ FailFastMode /\ pc[p] = "done" /\ Kinds(res[p].err) = {"RateLimited"}
        /\ aux[p].lookups = 1 /\ ~aux[p].hit /\ aux[p].dispatches = 0

(* C12: in fail-fast mode a call rejected with RateLimited consumes no token:
   when it returns, the instant at which the next token becomes available is
   what it would be had the call not been made, its reservation given back. *)
C12_RejectedCallReturnsToken ==
    [][\A p \in Procs :
         (FailFastMode /\ pc[p] = "cancel" /\ pc'[p] = "done")
            => ReadyAt(lim') = ReadyAt(lim) - Interval]_vars

(* C13: in block mode, when the context of the caller is cancelled or its
   deadline ends the wait for a rate token, the call returns an error that
   is identified as a cancellation error and as no other kind, and nothing is
   dispatched for that call. *)
C13_WaitEndsAsCancellation ==
    [][\A p \in Procs :
         (BlockMode /\ pc[p] \in {"rate", "waiting"} /\ pc'[p] = "done") =>
            /\ Kinds(res'[p].err) = {"Cancellation"}
            /\ res'[p].val = NilVal
            /\ aux'[p].dispatches = 0]_vars

-----------------------------------------------------------------------------
(* Properties of cancellation in flight and of the cache frame *)

\* the call of p returns from the network call while its context is done
ReturnsInFlightCancelled(p) ==
    pc[p] = "inflight" /\ pc'[p] = "done" /\ CtxDone(call[p].ctx, now)

\* the call of p returns a cancellation error and has written nothing
CancelledCleanly(p) ==
    /\ Kinds(res'[p].err) = {"Cancellation"}
    /\ res'[p].val = NilVal
    /\ aux'[p].sets = 0
    /\ items' = items

(* C14, as stated: when the context is cancelled or times out while the network
   call is in flight, the operation returns a cancellation error, never a
   classified API error and never a success, and writes nothing to the cache. *)
C14_AsStated ==
    [][\A p \in Procs : ReturnsInFlightCancelled(p) => CancelledCleanly(p)]_vars

(* C14, amended: ... and the transport ends the call for it (no response had
   been delivered and no other transport failure came first) ... *)
C14_CancelInFlight ==
    [][\A p \in Procs :
         (ReturnsInFlightCancelled(p) /\ aux'[p].status = 0
            /\ aux'[p].cause = CtxErr(call[p].ctx, now))
            => CancelledCleanly(p)]_vars

C14_Witness ==
    \E p \in Procs :
        /\ pc[p] = "done" /\ aux[p].dispatches = 1 /\ aux[p].status = 0
        /\ aux[p].cause = CtxDeadlineExceeded
        /\ Kinds(res[p].err) = {"Cancellation"}

(* C15: a call changes the cache only by one Set made after the successful
   decode of a success (2xx) response; every call that ends in an error
   leaves the contents of the cache exactly as they were. *)
C15_CacheWrittenOnlyOnSuccess ==
    [][\A p \in Procs :
         MyStep(p) =>
            IF pc[p] = "inflight" /\ pc'[p] = "done" /\ res'[p].err = NilErr
            THEN /\ aux'[p].decoded /\ ~Non2xx(aux'[p].status)
                 /\ items' = CacheSet(cfg.cache, items,
                                      CacheKey(call[p].op, call[p].q, call[p].opts),
                                      Marshal(call[p].op, res'[p].val), TTLOf(call[p].op), now)
            ELSE items' = items]_vars

-----------------------------------------------------------------------------
(* Properties of the shared budget *)

\* two instants lie at least one refill interval apart
Spaced(a, b) == a - b >= Interval \/ b - a >= Interval

(* C16, as stated: with the governor enabled (capacity 1, interval I), for all
   interleavings of concurrent callers and in both modes, the dispatches
   started within any window of length T number at most 1 + floor(T / I); so
   a dispatch starts at least I after the start of any dispatch still in
   flight. *)
C16_AsStated ==
    [][\A p \in Procs : \A q \in Procs \ {p} :
         (cfg.limiter /\ pc[p] = "dispatch" /\ pc'[p] = "inflight" /\ pc[q] = "inflight")
            => now >= aux[q].dispAt + Interval]_vars

(* C16, amended: ... the tokens the governor grants, counted at the instants
   they are granted for, number at most 1 + floor(T / I) in any window of
   length T over all callers together: any two granted tokens lie at least I
   apart.  The dispatch of a call starts at or after the instant of its token. *)
C16_SharedBudget ==
    [][\A p \in Procs :
         (cfg.limiter /\ pc'[p] = "dispatch" /\ pc[p] # "dispatch") =>
            /\ past'[p].tok /\ now >= past'[p].tokAt
            /\ past'[p].tokAt \notin past[p].toks
            /\ \A q \in Procs : \A g \in past[q].toks : Spaced(past'[p].tokAt, g)]_vars

C16_Witness ==
    /\ cfg.limiter
    /\ past["p1"].tok /\ past["p2"].tok
    /\ pc["p1"] = "dispatch" /\ pc["p2"] = "dispatch"

\* C17: once Close has been called the cleanup goroutine starts no sweep
\* (its select never takes the ticker's case) and a sweep deletes no entry.
C17_NoSweepAfterClose ==
    [][(sw.used /\ sw.closed) =>
          /\ ~(sw.pc = "select" /\ sw'.pc = "lock")
          /\ (sw.pc = "sweep" /\ sw'.pc = "select") => items' = items]_vars

\* C18: once Close has been called the cleanup goroutine eventually returns,
\* wherever it was when the stop channel was closed.
C18_SweeperTerminates == (sw.used /\ sw.closed) ~> (sw.pc = "stopped")

\* Close arrived while the goroutine was blocked on the lock held by a
\* caller of Set, and the goroutine has returned
C18_Witness == sw.used /\ sw.pc = "stopped" /\ sw.at = "lock" /\ sw.blocked

\* the entry a successful call of op leaves under key: the marshalled result,
\* expiring one hour (search) or twenty-four hours (details) from now
StoredBy(op, v) ==
    [value |-> Marshal(op, v),
     expiration |-> now + (IF op = "search" THEN SearchTTL ELSE DetailTTL)]

(* C19: a successful SearchPlants stores its result for 1 hour and a
   successful GetPlantDetails for 24 hours; the identical call made strictly
   later than that is not answered from the cache but enters the rate gate,
   it succeeds only through a token (where the governor is on) and a new
   dispatch, and its result replaces the entry. *)
C19_EntryExpiresAfterTTL ==
    [][\A p \in Procs :
         LET key == CacheKey(call'[p].op, call'[p].q, call'[p].opts) IN
         /\ (CallStep(p) /\ call'[p].q # <<>> /\ StaleFor(p, key, now)) =>
                /\ pc'[p] = "rate"
                /\ aux'[p].lookups = 1 /\ ~aux'[p].hit /\ aux'[p].stale
                /\ aux'[p].dispatches = 0
         /\ (MyStep(p) /\ pc[p] # "done" /\ pc'[p] = "done" /\ res'[p].err = NilErr
                /\ ~aux'[p].hit) =>
                /\ aux'[p].dispatches = 1
                /\ cfg.limiter => aux'[p].tokens = 1
                /\ cfg.cache = "inmem" =>
                      /\ key \in DOMAIN items'
                      /\ items'[key] = StoredBy(call'[p].op, res'[p].val)
                      /\ past'[p].exp = items'[key].expiration]_vars

\* a details call made more than 24 hours after the store has missed, has
\* been dispatched and has replaced the entry that was still in the map
C19_Witness ==
    \E p \in Procs :
        /\ cfg.cache = "inmem" /\ cfg.limiter
        /\ pc[p] = "done" /\ call[p].op = "detail" /\ aux[p].stale
        /\ res[p].err = NilErr /\ aux[p].dispatches = 1 /\ aux[p].sets = 1
        /\ items[CacheKey(call[p].op, call[p].q, call[p].opts)].expiration = now + DetailTTL

(* C20: a client built with DisableRateLimit as its last rate option has no
   governor; none of its calls is ever in a rate wait or holds a reservation,
   none takes a token and none returns a RateLimited error, in either
   behaviour mode and whatever the interleaving of its callers. *)
C20_DisabledNeverLimits ==
    /\ ~cfg.limiter
    /\ \A p \in Procs :
          /\ pc[p] \notin {"waiting", "delay", "cancel"}
          /\ rsv[p] = NoReservation
          /\ aux[p].tokens = 0
          /\ "RateLimited" \notin Kinds(res[p].err)

\* in fail-fast mode two calls are in flight, dispatched at the same instant
C20_Witness ==
    /\ ~cfg.limiter /\ cfg.behavior = "RateLimitError"
    /\ pc["p1"] = "inflight" /\ pc["p2"] = "inflight"
    /\ aux["p1"].dispAt = aux["p2"].dispAt

(* C21: on the no-op cache every Get reports not-found, whatever Set, Delete
   and Clear came before; on a client configured with it every call with
   valid input misses and enters the rate gate, a call that passes the gate
   is dispatched, and no call succeeds without its own dispatch. *)
C21_NoOpCacheNeverAnswers ==
    [][/\ \A key \in NoOpKeys : Get(key) => ~cget'.found
       /\ \A p \in Procs :
            /\ (CallStep(p) /\ call'[p].q # <<>>) =>
                   (pc'[p] = "rate" /\ aux'[p].lookups = 1 /\ ~aux'[p].hit)
            /\ (pc[p] = "dispatch" /\ pc'[p] # "dispatch") =>
                   (pc'[p] = "inflight" /\ aux'[p].dispatches = 1)
            /\ (pc[p] # "done" /\ pc'[p] = "done" /\ res'[p].err = NilErr) =>
                   (pc[p] = "inflight" /\ aux'[p].dispatches = 1)]_vars

\* Get has just missed a key that was Set, and a call that repeats the
\* caller's last successful call is in flight
C21_Witness ==
    /\ cfg.cache = "noop"
    /\ cget.done /\ ~cget.found /\ cget.key \in DOMAIN cset /\ cset[cget.key].ttl > 0
    /\ cget.at = cset[cget.key].at
    /\ \E p \in Procs :
          /\ pc[p] = "inflight" /\ past[p].ok
          /\ past[p].key = CacheKey(call[p].op, call[p].q, call[p].opts)

\* Get(key) reports not-found on the map its, now and at every later instant
Absent(its, key) == \A t \in now .. MaxTime : ~CacheGet("inmem", its, key, t).found

(* C22: on the in-memory cache Delete(key) makes Get(key) report not-found
   and leaves the payload and the expiration of every other key as they were;
   Clear makes Get report not-found for every key; Delete of an absent key
   and Clear of an empty cache change nothing. *)
C22_DeleteAndClearFrame ==
    [][/\ \A key \in CacheKeys : ExtDelete(key) =>
            /\ Absent(items', key)
            /\ DOMAIN items' = DOMAIN items \ {key}
            /\ \A k \in DOMAIN items' : items'[k] = items[k]
            /\ key \notin DOMAIN items => items' = items
       /\ ExtClear =>
            /\ \A key \in CacheKeys : Absent(items', key)
            /\ items = NoItems => items' = items]_vars

\* a key that Get has just found is gone at the same instant, while another
\* key, stored earlier, still holds what was stored
C22_Witness ==
    /\ cfg.cache = "inmem"
    /\ cget.done /\ cget.found /\ cget.at = now /\ cget.key \notin DOMAIN items
    /\ \E b \in DOMAIN items \cap DOMAIN cset :
          /\ cset[b].at < now
          /\ items[b] = [value |-> cset[b].value, expiration |-> cset[b].at + cset[b].ttl]

-----------------------------------------------------------------------------
(* Properties of the option loop of New *)

\* the arguments the validating options must reject
InvalidArgument(o) ==
    \/ o.name = "WithAPIKey" /\ o.a = ""
    \/ o.name = "WithOAuth2" /\ (o.a = "" \/ o.b = "")
    \/ o.name = "WithBaseURL" /\ o.a = ""
    \/ o.name = "WithHTTPClient" /\ o.a = "nil"
    \/ o.name = "WithCache" /\ o.a = "nil"
    \/ o.name = "WithRateLimit" /\ o.n <= 0

\* New has not run authentication resolution on the draft
Unresolved ==
    /\ nw.logged = ""
    /\ draft.httpClient = IF nw.supplied = "nil" THEN NilClient ELSE SuppliedClient(nw.supplied)

(* C23: New applies its options in the order given, each to the draft the
   earlier ones left; at the first option that fails New returns that
   option's error and no client, applies no further option and does not
   attempt authentication resolution. *)
C23_FirstFailingOptionEndsNew ==
    [][/\ \A o \in Options : NewOption(o) =>
            LET r == ApplyOption(draft, o) IN
            /\ nw'.n = nw.n + 1 /\ nw'.last = o
            /\ IF r.err = NilErr
               THEN draft' = r.c /\ nw'.stage = "options" /\ ~nw'.rejected
               ELSE /\ nw'.stage = "failed" /\ nw'.err = r.err /\ nw'.rejected
                    /\ draft' = draft
       /\ (nw.used /\ nw.stage = "failed") => (nw' = nw /\ draft' = draft)
       /\ (nw.used /\ nw.rejected) => Unresolved]_vars

\* a static key was accepted, then an empty base address was rejected
C23_Witness ==
    /\ nw.used /\ nw.stage = "failed" /\ nw.rejected /\ nw.n = 2
    /\ nw.last = Opt("WithBaseURL", "", "", 0)
    /\ draft.apiKey = "k" /\ draft.baseURL = DefaultBaseURL
    /\ draft.httpClient = NilClient /\ nw.logged = ""

(* C24: every validating option rejects its invalid argument (empty key,
   OAuth2 pair with an empty field, empty base address, nil transport, nil
   cache, non-positive rate) with a Config error and leaves the draft as it
   was; New then fails with that Config error, never with the no-auth error. *)
C24_ValidatorsRejectWithConfig ==
    [][\A o \in Options : (NewOption(o) /\ InvalidArgument(o)) =>
          /\ Kinds(ApplyOption(draft, o).err) = {"Config"}
          /\ ApplyOption(draft, o).c = draft
          /\ draft' = draft
          /\ nw'.stage = "failed" /\ Kinds(nw'.err) = {"Config"}]_vars

\* New has failed on an OAuth2 pair that has an id and no secret
C24_Witness ==
    /\ nw.used /\ nw.stage = "failed" /\ nw.last = Opt("WithOAuth2", "id", "", 0)
    /\ Kinds(nw.err) = {"Config"} /\ draft.clientID = "" /\ draft.clientSecret = ""

(* C25: when New fails because both credential schemes are configured, or
   none (and no transport is supplied), the error it returns is of the Config
   kind, as the errors of the option validators are. *)
C25_AuthErrorsAreConfig ==
    (nw.used /\ nw.stage = "failed") => "Config" \in Kinds(nw.err)

-----------------------------------------------------------------------------
(* Properties of the outbound request *)

\* the query parameters C26 lets a call send
StatedParams(op, q, opts) ==
    IF op = "search"
    THEN {[name |-> <<"alias">>, value |-> q]}
         \cup (IF ~opts.nil /\ opts.Limit > 0
                THEN {[name |-> <<"limit">>, value |-> Itoa(opts.Limit)]} ELSE {})
         \cup (IF ~opts.nil /\ opts.UserPlants
                THEN {[name |-> <<"userplant">>, value |-> <<"user">>]} ELSE {})
    ELSE IF ~opts.nil /\ opts.Language # <<>>
         THEN {[name |-> <<"lang">>, value |-> opts.Language]} ELSE {}

(* C26: the request a call sends is GET on /plant/search, or on
   /plant/detail/ followed by the id, with the parameters alias, limit (options
   given and limit > 0), userplant (options ask for user plants) or lang
   (options give a language), and with no other query parameter. *)
C26_RequestFromInputs ==
    (rq.used /\ rq.stage \notin {"start", "built"}) =>
        /\ rq.req.method = "GET"
        /\ rq.req.path = RawTarget(rq.op, rq.q)
        /\ rq.req.params = StatedParams(rq.op, rq.q, rq.opts)

(* C27: with static-key authentication the request that reaches the
   underlying transport carries Authorization: Token <key> with the
   configured key and is otherwise the request of the caller, whose own
   header map is never written to. *)
C27_KeyHeaderOnClone ==
    /\ (rq.used /\ rq.stage \notin {"start"}) =>
          (rq.req.hdr = 1 /\ rq.heap[rq.req.hdr] = DefaultHeaders)
    /\ (rq.used /\ rq.stage = "sent") =>
          /\ rq.wire.headers = [DefaultHeaders EXCEPT !["Authorization"] = "Token " \o rq.apiKey]
          /\ rq.wire.method = rq.req.method
          /\ rq.wire.path = rq.req.path
          /\ rq.wire.params = rq.req.params

C27_Witness ==
    /\ rq.used /\ rq.stage = "sent" /\ rq.apiKey = "k2" /\ rq.op = "detail"
    /\ rq.wire.headers["Authorization"] = "Token k2"
    /\ rq.heap[rq.req.hdr]["Authorization"] = ""

-----------------------------------------------------------------------------
(* Properties of the call as a state machine *)

\* the step in which caller p's call starts its exchange with the transport
DispatchStep(p) == aux'[p].n = aux[p].n /\ aux'[p].dispatches # aux[p].dispatches

(* C28: a call never retries.  It dispatches only after its input passed
   validation, its one cache lookup missed and, with the governor enabled,
   its one token was granted; it performs at most one lookup, takes at most
   one token and dispatches at most once; a failure at any step ends the call,
   and the caller's next step is a new call. *)
C28_CallNeverRetries ==
    /\ [](\A p \in Procs :
            /\ aux[p].lookups <= 1 /\ aux[p].tokens <= 1 /\ aux[p].dispatches <= 1
            /\ aux[p].tokens = 1 => cfg.limiter
            /\ aux[p].hit => (aux[p].tokens = 0 /\ aux[p].dispatches = 0)
            /\ res[p].err # NilErr => (pc[p] = "done" /\ aux[p].sets = 0))
    /\ [][\A p \in Procs :
            /\ DispatchStep(p) =>
                  /\ InputValid(call[p].q)
                  /\ aux[p].lookups = 1 /\ ~aux[p].hit
                  /\ cfg.limiter => aux[p].tokens = 1
                  /\ aux[p].dispatches = 0 /\ aux'[p].dispatches = 1
                  /\ res[p].err = NilErr
            /\ (pc[p] = "done" /\ res[p].err # NilErr /\ MyStep(p)) => CallStep(p)
            /\ (pc[p] # "done" /\ pc'[p] = "done" /\ res'[p].err # NilErr) =>
                  /\ aux'[p].dispatches = aux[p].dispatches
                  /\ aux'[p].tokens = aux[p].tokens
                  /\ items' = items]_vars

C28_Witness ==
    \E p \in Callers :
        /\ cfg.limiter /\ pc[p] = "done" /\ res[p].err # NilErr
        /\ aux[p].lookups = 1 /\ aux[p].tokens = 1 /\ aux[p].dispatches = 1

-----------------------------------------------------------------------------
(* Properties of the sweep and of the cache lock *)

(* C29: one sweep removes exactly the entries whose expiration instant is
   strictly before the time of the sweep; every other entry, one that expires
   at the very instant of the sweep included, stays as it was. *)
C29_SweepRemovesExactlyExpired ==
    [][Sweep =>
         /\ DOMAIN items' = {k \in DOMAIN items : ~(items[k].expiration < now)}
         /\ \A k \in DOMAIN items' : items'[k] = items[k]]_vars

C29_Witness ==
    \E a, b \in CacheKeys :
        /\ a \in DOMAIN cset /\ a \notin DOMAIN items /\ cset[a].at + cset[a].ttl < now
        /\ b \in DOMAIN items /\ items[b].expiration = now

\* the goroutines inside a Get / inside a writer, holding c.mu
Reading == {g \in Goroutines : lk.at[g] \in {"held", "unlock"} /\ lk.op[g].name = "Get"}

Writing == {g \in Goroutines : lk.at[g] \in {"held", "unlock"} /\ lk.op[g].name # "Get"}

(* C30: in every interleaving of Get, Set, Delete, Clear and removeExpired,
   a writer never holds the lock together with a reader or with another
   writer, while several Gets may hold it together; and the map a Get reads
   is the map as the last completed writer left it (the empty map before any
   writer), never one a writer is still changing. *)
C30_WritersExcludeReaders ==
    lk.used =>
        /\ Cardinality(Writing) <= 1
        /\ Writing # {} => Reading = {}
        /\ lk.w = (Writing # {}) /\ lk.r = Cardinality(Reading)
        /\ \A g \in Reading : items = lk.base /\ (lk.at[g] = "unlock" => lk.seen[g] = lk.base)

C30_Witness ==
    /\ lk.used /\ Cardinality(Reading) = 2 /\ lk.base # NoItems
    /\ \E g \in Goroutines : lk.at[g] = "wait" /\ lk.op[g].name = "removeExpired"
    /\ \E key \in DOMAIN items : Expired(items[key], now)

-----------------------------------------------------------------------------
(* Properties of the client's life *)

\* the fields of the client that a call reads
Readable(c) ==
    [baseURL |-> c.baseURL, apiKey |-> c.apiKey, clientID |-> c.clientID,
     clientSecret |-> c.clientSecret, httpClient |-> c.httpClient, cache |-> c.cache,
     perDay |-> c.perDay, behavior |-> c.behavior]

(* C31: the base address and the cache of the client New is building are
   never empty / null, so that every client New returns has a non-empty base
   address, a non-null transport and a non-null cache; and once New has
   returned the client, no step of any call of either caller changes its base
   address, credentials, transport, cache reference, governor reference or
   behaviour mode. *)
C31_ClientIsReadOnly ==
    /\ [](nw.used => (draft.baseURL # "" /\ draft.cache # "nil"))
    /\ [](nw.stage \in {"ok", "serving"} => draft.httpClient # NilClient)
    /\ [][nw.stage = "serving" => (Readable(draft') = Readable(draft) /\ cfg' = cfg)]_vars
    /\ [](nw.stage = "serving" => cfg = ConfigOf(draft))

C31_Witness ==
    /\ nw.stage = "serving" /\ draft.baseURL = "u" /\ draft.httpClient = APIKeyClient("k")
    /\ pc["p1"] = "done" /\ res["p1"].err = NilErr /\ pc["p2"] = "inflight"

-----------------------------------------------------------------------------
(* Properties of the cache key *)

\* the inputs of a call, apart from its context
Inputs(c) == [op |-> c.op, q |-> c.q, opts |-> c.opts]

\* the outbound request of a call: its path and its query parameters
RequestOf(c) ==
    [path |-> newRequest(c.op, c.q, 1).path,
     params |-> WithParams(c.op, c.q, c.opts, newRequest(c.op, c.q, 1).params)]

(* C32: a call is answered from the cache only with an entry that a call of
   the same operation with an equal query / id and equal options has stored:
   here each caller makes one call, so a hit of one caller is served from the
   entry the other caller's call stored, and the two calls have equal
   inputs. *)
C32_HitOnlyForEqualInputs ==
    \A p, r \in Procs :
        (p # r /\ pc[p] = "done" /\ aux[p].hit) =>
            (aux[r].sets = 1 /\ Inputs(call[r]) = Inputs(call[p]))

(* C33: a call of the same operation whose outbound request (path and query
   parameters) is identical to that of a call that has completed and stored
   its result is answered from the cache. *)
C33_SameRequestSameKey ==
    [][\A p, r \in Procs :
         (/\ p # r /\ CallStep(p)
          /\ pc[r] = "done" /\ aux[r].sets = 1
          /\ call'[p].op = call[r].op
          /\ RequestOf(call'[p]) = RequestOf(call[r])) => aux'[p].hit]_vars

\* the payload is JSON of another type than the result of the operation
Undecodable(op, payload) ==
    \/ op = "search" /\ payload.shape # "array"
    \/ op = "detail" /\ payload.shape # "object"

\* the key of the call caller p is in after the step
KeyAfter(p) == CacheKey(call'[p].op, call'[p].q, call'[p].opts)

(* C34: when the cache holds, under the key of a call, an unexpired payload
   that does not decode into the result type, the call does not fail and does
   not return the payload: it continues to the rate gate as after a miss,
   returns a value only from a dispatch (with a token when the governor is
   enabled), and its success leaves a decodable payload of its result under
   the key. *)
C34_UndecodableEntryIsMiss ==
    [][\A p \in Procs :
         /\ (/\ CallStep(p) /\ InputValid(call'[p].q)
             /\ KeyAfter(p) \in DOMAIN items
             /\ ~(now > items[KeyAfter(p)].expiration)
             /\ Undecodable(call'[p].op, items[KeyAfter(p)].value))
              => (/\ pc'[p] = "rate" /\ res'[p] = NoResult /\ items' = items
                  /\ aux'[p].lookups = 1 /\ ~aux'[p].hit /\ aux'[p].garbled)
         /\ (aux[p].garbled /\ pc[p] # "done" /\ pc'[p] = "done" /\ res'[p].err = NilErr)
              => (/\ pc[p] = "inflight" /\ aux'[p].dispatches = 1
                  /\ cfg.limiter => aux'[p].tokens = 1
                  /\ KeyAfter(p) \in DOMAIN items'
                  /\ ~Undecodable(call'[p].op, items'[KeyAfter(p)].value)
                  /\ items'[KeyAfter(p)].value.v = res'[p].val)]_vars

C34_Witness ==
    \E p \in Callers :
        /\ pc[p] = "done" /\ aux[p].garbled /\ res[p].err = NilErr /\ cfg.limiter
        /\ aux[p].dispatches = 1 /\ aux[p].tokens = 1 /\ aux[p].sets = 1
        /\ items[CacheKey(call[p].op, call[p].q, call[p].opts)].value.shape = "object"

-----------------------------------------------------------------------------
(* Properties of concurrent callers and the cache *)

\* the cache holds an unexpired, decodable entry under the key of caller p's call
EntryServes(p) ==
    LET key == CacheKey(call[p].op, call[p].q, call[p].opts)
    IN  /\ cfg.cache = "inmem" /\ key \in DOMAIN items
        /\ ~(now > items[key].expiration)
        /\ ~Undecodable(call[p].op, items[key].value)

(* C35: for every interleaving of the callers of one client, no call starts
   its network dispatch while the cache holds an unexpired, decodable entry
   under the key of that call. *)
C35_NoDispatchBesideEntry ==
    [][\A p \in Procs : DispatchStep(p) => ~EntryServes(p)]_vars

-----------------------------------------------------------------------------
(* Properties of New and the cleanup goroutine *)

\* the cleanup goroutine started by the client literal of New has not returned
SweeperRunning == sw.used /\ sw.pc # "stopped"

(* C36: when New has returned an error, or has returned a client whose cache
   is not the default in-memory cache because a WithCache option replaced it,
   the cleanup goroutine started during that call of New is not left
   running. *)
C36_NoSweeperLeftBehind ==
    (nw.used /\ (nw.stage = "failed" \/ (nw.stage = "ok" /\ draft.cache # "inmem")))
        => ~SweeperRunning

-----------------------------------------------------------------------------
(* Properties of logging *)

\* the client with logger x in place of its own
Relogged(c, x) == [c EXCEPT !.logger = x]

\* the outcome of a step of New apart from what it logged and from the logger
Outcome(r) == [err |-> r.err, c |-> Readable(r.c)]

(* C37: logging is observational only.  Whatever the state of the client
   that New is building or has returned, each step gives the same error and
   the same readable fields with a logger configured as without one: every
   option, the resolution of authentication and the validation; the
   configuration the calls read is the same; setting the logger changes no
   other field; and a message is logged only when a logger is configured. *)
C37_LoggingIsObservational ==
    /\ [](nw.used =>
            \A x \in {"nil", "lg"} :
                /\ Outcome(configureAuth(Relogged(draft, x))) = Outcome(configureAuth(draft))
                /\ validate(Relogged(draft, x)) = validate(draft)
                /\ \A o \in LifeOptions :
                      Outcome(ApplyOption(Relogged(draft, x), o)) = Outcome(ApplyOption(draft, o))
                /\ nw.stage \in {"ok", "serving"}
                      => ConfigOf(Relogged(draft, x)) = ConfigOf(draft))
    /\ []((nw.used /\ draft.logger = "nil") =>
            (nw.logged = "" /\ \A p \in Procs : aux[p].logged = ""))
    /\ [][(nw.used /\ draft'.logger # draft.logger) => Readable(draft') = Readable(draft)]_vars

C37_Witness ==
    /\ nw.stage = "serving" /\ draft.logger = "lg" /\ nw.logged # ""
    /\ pc["p1"] = "done" /\ aux["p1"].logged = "completed"
    /\ pc["p2"] = "done" /\ aux["p2"].logged = "cache hit"

-----------------------------------------------------------------------------
(* Properties of the order of options *)

\* the field of the Client an option assigns
FieldOf(o) ==
    CASE o.name = "WithAPIKey" -> "apiKey"
      [] o.name = "WithOAuth2" -> "clientID, clientSecret"
      [] o.name = "WithBaseURL" -> "baseURL"
      [] o.name = "WithHTTPClient" -> "httpClient"
      [] o.name = "WithCache" -> "cache"
      [] o.name \in {"WithRateLimit", "DisableRateLimit"} -> "rateLimiter"
      [] o.name = "WithLogger" -> "logger"
      [] OTHER -> "rateLimitBehavior"

\* the options that the client c accepts
ValidFor(c) == {o \in Options : ApplyOption(c, o).err = NilErr}

\* the client after the accepted options o1, o2 in this order
After2(c, o1, o2) == ApplyOption(ApplyOption(c, o1).c, o2).c

(* C38: whatever New has applied so far, two valid options that assign
   different fields give the same client in either order, and of two valid
   options that assign the same field the later one decides (DisableRateLimit
   then WithRateLimit leaves the governor enabled, the reverse disabled); the
   transport New then builds for OAuth2 has the token endpoint final base
   address + /token/, wherever WithBaseURL stood among the options. *)
C38_OptionOrder ==
    /\ (nw.used /\ nw.stage = "options") =>
          \A o1, o2 \in ValidFor(draft) :
              /\ ApplyOption(ApplyOption(draft, o1).c, o2).err = NilErr
              /\ FieldOf(o1) # FieldOf(o2) => After2(draft, o1, o2) = After2(draft, o2, o1)
              /\ FieldOf(o1) = FieldOf(o2) => After2(draft, o1, o2) = ApplyOption(draft, o2).c
    /\ (nw.used /\ nw.stage = "options") =>
          /\ After2(draft, Opt("DisableRateLimit", "", "", 0), Opt("WithRateLimit", "", "", 12)).perDay = 12
          /\ After2(draft, Opt("WithRateLimit", "", "", 12), Opt("DisableRateLimit", "", "", 0)).perDay = 0
    /\ (nw.used /\ nw.stage = "ok" /\ nw.supplied = "nil" /\ nw.oauth) =>
          draft.httpClient = OAuthClient(draft.clientID, draft.clientSecret, draft.baseURL)

C38_Witness ==
    /\ nw.used /\ nw.stage = "ok" /\ nw.oauth /\ nw.n = 2
    /\ nw.last = Opt("WithBaseURL", "u", "", 0)
    /\ draft.httpClient = OAuthClient("id", "s", "u")

\* the wait of p is over in this step
LeavesWait(p) == pc[p] = "waiting" /\ pc'[p] # "waiting"

(* C39, as stated: a waiter whose context is cancelled returns without being
   granted a token. *)
C39_AsStated ==
    [][\A p \in Procs :
         (LeavesWait(p) /\ call[p].ctx.cancelled) => aux'[p].tokens = 0]_vars

(* C39: provided time advances and the transport answers, every call
   eventually returns, and every waiter is eventually granted a token unless
   its context is cancelled first (no starvation among concurrent waiters). A
   wait ends in one of two ways only: with the token, at or after the grant
   instant of the reservation, or, the context being cancelled, with a
   cancellation error, no token, no dispatch and the reservation given back.
   A waiter cancelled before its grant instant ends the second way. *)
C39_WaitersAreServed ==
    /\ \A p \in Procs : (pc[p] \notin {"idle", "done"}) ~> (pc[p] = "done")
    /\ \A p \in Procs :
         (pc[p] = "waiting") ~> (aux[p].tokens = 1 \/ call[p].ctx.cancelled)
    /\ [][\A p \in Procs : LeavesWait(p) =>
            \/ /\ pc'[p] = "dispatch"
               /\ aux'[p].tokens = 1
               /\ now >= rsv[p].timeToAct
            \/ /\ pc'[p] = "done"
               /\ call[p].ctx.cancelled
               /\ Kinds(res'[p].err) = {"Cancellation"}
               /\ aux'[p].tokens = 0
               /\ aux'[p].dispatches = 0
               /\ lim' = CancelAt(lim, Interval, rsv[p], now)]_vars
    /\ [][\A p \in Procs :
            (LeavesWait(p) /\ call[p].ctx.cancelled /\ now < rsv[p].timeToAct) =>
               aux'[p].tokens = 0]_vars

\* both callers wait at once: one has just been granted its token when its
\* timer fired, the other, cancelled before its grant instant, is about to return
C39_Witness ==
    \E p, q \in Procs :
        /\ p # q
        /\ pc[p] = "dispatch" /\ aux[p].tokens = 1 /\ aux[p].delay > 0
        /\ past[p].tokAt = now
        /\ pc[q] = "waiting" /\ call[q].ctx.cancelled /\ now < rsv[q].timeToAct

\* the retry of p is the only call under way
RetryAlone(p) ==
    /\ aux[p].retry
    /\ aux[p].n = ncalls
    /\ \A o \in Procs \ {p} : pc[o] \in {"idle", "done"}

(* C40: under fail-fast, a call retried at or after the resume-after instant
   of the RateLimited error its caller got, with no other call made on the
   client in between, is granted a token at the gate and goes on to dispatch:
   it is not rejected again. *)
C40_ResumeInstantSuffices ==
    [][\A p \in Procs :
         (RetryAlone(p) /\ pc[p] \in {"rate", "delay"} /\ pc'[p] # pc[p]) =>
            /\ pc'[p] \in {"delay", "dispatch"}
            /\ pc'[p] = "dispatch" => aux'[p].tokens = 1]_vars

=============================================================================
